---- MODULE Spec2Model ----
(***************************************************************************)
(* A model of the topology generator (structures.py, class Proxytree) and  *)
(* of the three model builders (fun_lib_DWAVE.py: vm_model, path_model,    *)
(* full_model) of quantum-optimization-performance.                        *)
(*                                                                         *)
(* Python lists are modelled as sequences; element i of a Python list is   *)
(* element i+1 of the sequence (operator At).  A Python dict is modelled   *)
(* as the sequence of its <<key, value>> entries in insertion order.       *)
(* Names of decision variables and dictionary keys are the strings the     *)
(* code formats.                                                           *)
(***************************************************************************)
EXTENDS Integers, Sequences, FiniteSets, TLC

VARIABLES
    args,         \* the arguments Proxytree is constructed with
    pc,           \* position of the run in the main script
    tree,         \* the constructed Proxytree (NoTree before / on failure)
    raised,       \* exception raised by the constructor ("none" if none)
    tree2,        \* the Proxytree of a second construction with the same arguments
    raised2,      \* exception raised by the second construction
    vm_vars,      \* names of the variables created by vm_model
    vm_solution,  \* the placement assignment handed to path_model
    path_vars,    \* names of the variables created by path_model
    path_reads,   \* the lookups path_model made in vm_solution
    path_raised,  \* exception raised by path_model ("none" if none)
    full_vars,    \* names of the variables created by full_model
    solution_file,  \* the file <DWAVE|IBM> LOGS/depth_<DEPTH>/vm_model_solution.txt
    saved,          \* whether the last placement solve wrote solution_file
    log_file,       \* the file <label>_info.txt that info_writer appends to
                    \* (vm_model_info.txt in the main scripts)
    log_calls,      \* the dictionaries info_writer was called with, in order
    script,         \* the main script that runs: "IBM" or "DWAVE"
    iterations,     \* ITERATIONS of the main script
    iteration,      \* the index of the pass of the loop that runs
    models,         \* the model objects bound to vm, path and full, and the next fresh one
    solve_log,      \* the solver calls made so far
    build_log       \* the path models built so far

\* the files of the run
file_vars == <<solution_file, saved>>

\* the run statistics
log_vars == <<log_file, log_calls>>

\* the loop of the main script
loop_vars == <<script, iterations, iteration, models, solve_log, build_log>>

vars == <<args, pc, tree, raised, tree2, raised2, vm_vars, vm_solution,
          path_vars, path_reads, path_raised, full_vars, file_vars, log_vars,
          loop_vars>>

(***************************************************************************)
(* Bounds of the model.                                                    *)
(***************************************************************************)
MaxDepth == 3        \* deepest tree constructed without randomization
MaxRandDepth == 1    \* deepest tree constructed with random_tree = True
MaxAllSamplesServers == 2   \* most servers for which every 0/1 sample is drawn
MaxModelDepth == 2   \* deepest tree the model builders are run on

(***************************************************************************)
(* Program constants.                                                      *)
(***************************************************************************)
LINK_C_DECREASE == 2
IDLE_PC_DECREASE == 5
DYN_PC_DECREASE == 1

NoTree == [DEPTH |-> 0]
NoVars == [created |-> FALSE]
NoFile == [exists |-> FALSE, text |-> ""]

(***************************************************************************)
(* Python values and helpers.                                              *)
(***************************************************************************)
\* element i of a Python list
At(list, i) == list[i + 1]

\* range(a, b) as a sequence
Range(a, b) == [i \in 1..(b - a) |-> a + i - 1]

\* [v for _ in range(n)]
Repeat(v, n) == [i \in 1..n |-> v]

RECURSIVE Concat(_)
Concat(ss) == IF ss = <<>> THEN <<>> ELSE Head(ss) \o Concat(Tail(ss))

\* str((a, b)) of a tuple of two ints
StrPair(a, b) == "(" \o ToString(a) \o ", " \o ToString(b) \o ")"

\* dictionary[key] = value on an insertion-ordered dict
DictHas(d, key) == \E i \in 1..Len(d) : d[i][1] = key
DictSet(d, key, value) ==
    IF DictHas(d, key)
    THEN [i \in 1..Len(d) |-> IF d[i][1] = key THEN <<key, value>> ELSE d[i]]
    ELSE Append(d, <<key, value>>)
\* dictionary.get(key), for a key that is present
DictGet(d, key) == d[CHOOSE i \in 1..Len(d) : d[i][1] = key][2]
DictKeys(d) == {d[i][1] : i \in 1..Len(d)}
DictValues(d) == {d[i][2] : i \in 1..Len(d)}

(***************************************************************************)
(* Proxytree: the derived counts (structures.py lines 36-42, 77-84).       *)
(***************************************************************************)
\* pow(2, depth)
SERVERS_of(depth) == 2 ^ depth

\* sum(pow(2, lvl) for lvl in range(depth))
RECURSIVE SumPow(_, _)
SumPow(lvl, depth) == IF lvl >= depth THEN 0 ELSE 2 ^ lvl + SumPow(lvl + 1, depth)
\* variant: range(depth + 1), one level too many
SWITCHES_one_level_more(depth) == SumPow(0, depth + 1)
SWITCHES_of(depth) == SumPow(0, depth)

VMS_of(depth) == SERVERS_of(depth)

\* VMS//2 if VMS%2==0 else VMS//2+1
FLOWS_of(vms) == IF vms % 2 = 0 THEN vms \div 2 ELSE vms \div 2 + 1

NODES_of(depth) == SERVERS_of(depth) + SWITCHES_of(depth)

\* __init_links: LINKS starts at 0, one term per pair of adjacent switch
\* levels, then the server links
RECURSIVE links_loop(_, _, _)
links_loop(i, depth, links) ==
    IF i >= depth - 1 THEN links
    ELSE links_loop(i + 1, depth, links + (2 ^ i) * (2 ^ (i + 1)))
init_links(depth) == links_loop(0, depth, 0) + 2 * (2 ^ (depth - 1))

(***************************************************************************)
(* Proxytree: capacities and power coefficients (lines 87-115).            *)
(***************************************************************************)
\* __init_link_capacity: start_link_c is decreased after every switch level
RECURSIVE link_capacity_loop(_, _, _, _)
link_capacity_loop(lvl, depth, start_link_c, link_capacity) ==
    IF lvl >= depth - 1
    THEN link_capacity \o Repeat(start_link_c, 2 ^ depth)
    ELSE link_capacity_loop(lvl + 1, depth, start_link_c - LINK_C_DECREASE,
                            link_capacity \o Repeat(start_link_c, 2 ^ (2 * lvl + 1)))
\* variant: the first level is already decreased
init_link_capacity_decreased_first(depth, LINK_C) ==
    link_capacity_loop(0, depth, LINK_C - LINK_C_DECREASE, <<>>)
init_link_capacity(depth, LINK_C) == link_capacity_loop(0, depth, LINK_C, <<>>)

\* __init_idle_dyn_powcons: one value per node, level by level, servers last
RECURSIVE powcons_loop(_, _, _, _, _)
powcons_loop(lvl, depth, start_pc, decrease, powcons) ==
    IF lvl >= depth + 1 THEN powcons
    ELSE powcons_loop(lvl + 1, depth, start_pc - decrease, decrease,
                      powcons \o Repeat(start_pc, 2 ^ lvl))
init_idle_powcons(depth, IDLE_PC) == powcons_loop(0, depth, IDLE_PC, IDLE_PC_DECREASE, <<>>)
\* variant: range(DEPTH + 2), one level below the servers
init_dyn_powcons_one_level_more(depth, DYN_PC) ==
    powcons_loop(0, depth + 1, DYN_PC, DYN_PC_DECREASE, <<>>)
init_dyn_powcons(depth, DYN_PC) == powcons_loop(0, depth, DYN_PC, DYN_PC_DECREASE, <<>>)

(***************************************************************************)
(* Proxytree: adjacency matrix and link dictionary (lines 118-161).        *)
(***************************************************************************)
\* variant: range(first_sw, last_sw) leaves out the last father of a level
LevelPairs_last_father_left_out(lvl) ==
    IF lvl = 0
    THEN [i \in 1..2 |-> <<0, i>>]
    ELSE LET first_sw == 2 ^ lvl - 1
             last_sw == first_sw * 2
             first_son == 2 ^ (lvl + 1) - 1
             last_son == first_son * 2
             fathers == Range(first_sw, last_sw)
             sons == Range(first_son, last_son + 1)
         IN Concat([f \in 1..Len(fathers) |->
                       [s \in 1..Len(sons) |-> <<fathers[f], sons[s]>>]])

\* the (father, son) pairs of one switch level, in the order of the loops
LevelPairs(lvl) ==
    IF lvl = 0
    THEN [i \in 1..2 |-> <<0, i>>]
    ELSE LET first_sw == 2 ^ lvl - 1
             last_sw == first_sw * 2
             first_son == 2 ^ (lvl + 1) - 1
             last_son == first_son * 2
             fathers == Range(first_sw, last_sw + 1)
             sons == Range(first_son, last_son + 1)
         IN Concat([f \in 1..Len(fathers) |->
                       [s \in 1..Len(sons) |-> <<fathers[f], sons[s]>>]])

\* "Create all sw-sw links"
SwitchPairs(depth) == Concat([l \in 1..(depth - 1) |-> LevelPairs(l - 1)])

\* variant: son = father * 2 + i
ServerPairs_no_offset(depth) ==
    LET ll_firstsw == 2 ^ (depth - 1) - 1
        ll_lastsw == ll_firstsw * 2
        fathers == Range(ll_firstsw, ll_lastsw + 1)
    IN Concat([f \in 1..Len(fathers) |->
                  [i \in 1..2 |-> <<fathers[f], fathers[f] * 2 + (i - 1)>>]])

\* "Create all sw-s links": son = father * 2 + 1 + i
ServerPairs(depth) ==
    LET ll_firstsw == 2 ^ (depth - 1) - 1
        ll_lastsw == ll_firstsw * 2
        fathers == Range(ll_firstsw, ll_lastsw + 1)
    IN Concat([f \in 1..Len(fathers) |->
                  [i \in 1..2 |-> <<fathers[f], fathers[f] * 2 + 1 + (i - 1)>>]])

\* variant: link_counter is incremented between the two dict entries
AddLink_counter_between(st, father, son) ==
    [adjancy_list |-> [st.adjancy_list EXCEPT ![father + 1][son + 1] = 1,
                                              ![son + 1][father + 1] = 1],
     link_dict |-> DictSet(DictSet(st.link_dict, StrPair(father, son), st.link_counter),
                           StrPair(son, father), st.link_counter + 1),
     link_counter |-> st.link_counter + 1]

\* the body of the innermost loops: two matrix cells, two dict entries,
\* then link_counter += 1
AddLink(st, father, son) ==
    [adjancy_list |-> [st.adjancy_list EXCEPT ![father + 1][son + 1] = 1,
                                              ![son + 1][father + 1] = 1],
     link_dict |-> DictSet(DictSet(st.link_dict, StrPair(father, son), st.link_counter),
                           StrPair(son, father), st.link_counter),
     link_counter |-> st.link_counter + 1]

\* the loops over the pairs: done counts the iterations completed
RECURSIVE AddLinks(_, _)
AddLinks(loop, pairs) ==
    IF loop.done >= Len(pairs) THEN loop.st
    ELSE AddLinks([st |-> AddLink(loop.st, pairs[loop.done + 1][1], pairs[loop.done + 1][2]),
                   done |-> loop.done + 1],
                  pairs)

\* link_counter and the two structures run through both loop nests
init_link_dict_adj_list(depth, nodes) ==
    LET empty == [adjancy_list |-> Repeat(Repeat(0, nodes), nodes),
                  link_dict |-> <<>>,
                  link_counter |-> 0]
        switches_linked == AddLinks([st |-> empty, done |-> 0], SwitchPairs(depth))
    IN AddLinks([st |-> switches_linked, done |-> 0], ServerPairs(depth))

(***************************************************************************)
(* Proxytree: flow endpoints (lines 164-173).                              *)
(***************************************************************************)
\* variant: index_list[i + j], consecutive flows share a VM
init_src_dst_stride_one(index_list, flows) ==
    [i \in 1..flows |-> [j \in 1..2 |-> At(index_list, (i - 1) + (j - 1))]]

\* src_dst[i][j] = index_list[i*2 + j]
init_src_dst(index_list, flows) ==
    [i \in 1..flows |-> [j \in 1..2 |-> At(index_list, (i - 1) * 2 + (j - 1))]]

(***************************************************************************)
(* Proxytree.__init__ (lines 24-74).                                       *)
(***************************************************************************)
\* random.randint(a, b): the values it can return (none: ValueError)
RandInt(a, b) == a..b

\* the bounds of the CPU band, SERVER_C//2 + 1 .. SERVER_C - 1
CpuLow(server_c) == server_c \div 2 + 1
CpuHigh(server_c) == server_c - 1

\* random.shuffle(index_list): every ordering of [0, vms)
Shuffles(vms) ==
    {[i \in 1..vms |-> p[i] - 1] : p \in Permutations(1..vms)}

\* What the constructor takes from the random generator: the CPU
\* utilizations, the data rates and the order of index_list.  Without
\* random_tree they are the constants of lines 60-61 and the identity order.
Draws(a) ==
    LET vms == VMS_of(a.depth)
        flows == FLOWS_of(vms)
    IN IF a.random_tree
       THEN [cpu_util : [1..vms -> RandInt(CpuLow(a.server_c), CpuHigh(a.server_c))],
             data_rate : [1..flows -> RandInt(a.datar_avg - 1, a.datar_avg + 1)],
             index_list : Shuffles(vms)]
       ELSE {[cpu_util |-> Repeat(a.server_c \div 2 + 1, vms),
              data_rate |-> Repeat(a.datar_avg, flows),
              index_list |-> Range(0, vms)]}

\* The exception the constructor ends with, "none" if it returns.
\*   depth < 0 : pow(2, depth) is a float, range(self.SERVERS) raises (line 44)
\*   random_tree with an empty CPU band: randint raises (line 52)
\*   depth = 0 : 2**(depth-1) is a float, range(ll_firstsw, ..) raises (line 153)
ConstructorRaises(a) ==
    IF a.depth < 0 THEN "TypeError"
    ELSE IF a.random_tree /\ RandInt(CpuLow(a.server_c), CpuHigh(a.server_c)) = {}
         THEN "ValueError"
    ELSE IF a.depth = 0 THEN "TypeError"
    ELSE "none"

\* The object the constructor returns for arguments a and draws d.
Proxytree(a, d) ==
    LET depth == a.depth
        nodes == NODES_of(depth)
        vms == VMS_of(depth)
        flows == FLOWS_of(vms)
        built == init_link_dict_adj_list(depth, nodes)
    IN [DEPTH |-> depth,
        SERVER_C |-> a.server_c,
        LINK_C |-> a.link_c * depth,
        LINK_C_DECREASE |-> LINK_C_DECREASE,
        IDLE_PC |-> a.idle_pc * depth,
        IDLE_PC_DECREASE |-> IDLE_PC_DECREASE,
        DYN_PC |-> a.dyn_pc * depth,
        DYN_PC_DECREASE |-> DYN_PC_DECREASE,
        DATAR_AVG |-> a.datar_avg,
        SERVERS |-> SERVERS_of(depth),
        SWITCHES |-> SWITCHES_of(depth),
        VMS |-> vms,
        FLOWS |-> flows,
        NODES |-> nodes,
        LINKS |-> init_links(depth),
        server_capacity |-> Repeat(a.server_c, SERVERS_of(depth)),
        link_capacity |-> init_link_capacity(depth, a.link_c * depth),
        idle_powcons |-> init_idle_powcons(depth, a.idle_pc * depth),
        dyn_powcons |-> init_dyn_powcons(depth, a.dyn_pc * depth),
        cpu_util |-> d.cpu_util,
        data_rate |-> d.data_rate,
        link_dict |-> built.link_dict,
        adjancy_list |-> built.adjancy_list,
        src_dst |-> init_src_dst(d.index_list, flows)]

(***************************************************************************)
(* The arguments the model constructs trees with.                          *)
(***************************************************************************)
\* the values of main_DWAVE.py / main_IBM.py
MainBase == [server_c |-> 10, link_c |-> 5, idle_pc |-> 10, dyn_pc |-> 2, datar_avg |-> 4]
\* small positive values
SmallBase == [server_c |-> 3, link_c |-> 1, idle_pc |-> 1, dyn_pc |-> 1, datar_avg |-> 1]
\* a CPU band of two values under random_tree
BandBase == [server_c |-> 5, link_c |-> 2, idle_pc |-> 5, dyn_pc |-> 1, datar_avg |-> 2]
\* an empty CPU band under random_tree
EmptyBandBase == [MainBase EXCEPT !.server_c = 2]
\* a CPU band of two values and servers with dynamic power under random_tree
DynBandBase == [BandBase EXCEPT !.dyn_pc = 2]

\* servers of capacity 1
UnitBase == [MainBase EXCEPT !.server_c = 1]

Bases ==
    {MainBase, SmallBase, BandBase, UnitBase,
     [MainBase EXCEPT !.server_c = -1],
     [MainBase EXCEPT !.link_c = -1],
     [MainBase EXCEPT !.idle_pc = -1],
     [MainBase EXCEPT !.dyn_pc = -1]}

RandomBases == {SmallBase, EmptyBandBase}

WithBase(b, depth, random_tree) ==
    [depth |-> depth, server_c |-> b.server_c, link_c |-> b.link_c,
     idle_pc |-> b.idle_pc, dyn_pc |-> b.dyn_pc, datar_avg |-> b.datar_avg,
     random_tree |-> random_tree]

Inputs ==
    {WithBase(b, depth, FALSE) : b \in Bases, depth \in (0 - 1)..MaxDepth}
    \cup {WithBase(b, depth, TRUE) : b \in RandomBases, depth \in (0 - 1)..MaxRandDepth}
    \cup {WithBase(BandBase, 1, TRUE), WithBase(DynBandBase, 1, TRUE)}

(***************************************************************************)
(* get_nodes (structures.py lines 260-281).                                *)
(***************************************************************************)
\* str.replace(ch, "") for a one-character ch
RECURSIVE StrRemove(_, _)
StrRemove(str, ch) ==
    IF str = "" THEN ""
    ELSE IF Head(str) = ch THEN StrRemove(Tail(str), ch)
    ELSE Head(str) \o StrRemove(Tail(str), ch)

\* str.split(', ')
RECURSIVE StrSplit(_, _)
StrSplit(str, part) ==
    IF Len(str) < 2 THEN <<part \o str>>
    ELSE IF SubSeq(str, 1, 2) = ", "
         THEN <<part>> \o StrSplit(SubSeq(str, 3, Len(str)), "")
         ELSE StrSplit(Tail(str), part \o Head(str))

\* int(str) of a decimal numeral, with its sign
Digit(ch) == CHOOSE d \in 0..9 : ToString(d) = ch
RECURSIVE ParseNat(_, _)
ParseNat(str, n) ==
    IF str = "" THEN n ELSE ParseNat(Tail(str), 10 * n + Digit(Head(str)))
ParseInt(str) ==
    IF Head(str) = "-" THEN 0 - ParseNat(Tail(str), 0) ELSE ParseNat(str, 0)

\* list(dictionary.values()).index(l): the first entry whose value is l
FirstIndex(d, l) ==
    CHOOSE i \in 1..Len(d) : d[i][2] = l /\ \A j \in 1..(i - 1) : d[j][2] # l

\* variant: the last entry whose value is l, the (son, father) key
get_nodes_last_entry(l, dictionary) ==
    LET last == CHOOSE i \in 1..Len(dictionary) :
                    dictionary[i][2] = l /\ \A j \in (i + 1)..Len(dictionary) : dictionary[j][2] # l
        nodes == dictionary[last][1]
        parts == StrSplit(StrRemove(StrRemove(nodes, "("), ")"), "")
    IN [k \in 1..Len(parts) |-> ParseInt(parts[k])]

get_nodes(l, dictionary) ==
    LET nodes == dictionary[FirstIndex(dictionary, l)][1]
        parts == StrSplit(StrRemove(StrRemove(nodes, "("), ")"), "")
    IN [k \in 1..Len(parts) |-> ParseInt(parts[k])]

(***************************************************************************)
(* Variable naming (fun_lib_DWAVE.py lines 201-210, 274-290).              *)
(***************************************************************************)
\* "s{}".format(s)
ServerName(s) == "s" \o ToString(s)
\* "vm{}-s{}".format(vm, s)
VmName(vm, s) == "vm" \o ToString(vm) \o "-s" \o ToString(s)
\* "sw{}".format(sw)
SwitchName(sw) == "sw" \o ToString(sw)
\* "f{}-n{}-n{}".format(f, n1, n2)
FlowName(f, n1, n2) == "f" \o ToString(f) \o "-n" \o ToString(n1) \o "-n" \o ToString(n2)
\* "on{}-{}".format(n1, n2)
OnName(n1, n2) == "on" \o ToString(n1) \o "-" \o ToString(n2)

\* server_status: one variable per server
server_status(t) == [s \in 1..t.SERVERS |-> ServerName(s - 1)]

\* vm_status[s][vm]: one variable per (server, vm), the outer list over servers
vm_status(t) ==
    [s \in 1..t.SERVERS |-> [vm \in 1..t.VMS |-> VmName(vm - 1, s - 1)]]

\* switch_status: one variable per switch
switch_status(t) == [sw \in 1..t.SWITCHES |-> SwitchName(sw - 1)]

\* the (n1, n2) with adjancy_list[n1][n2] set, in the order of
\* "for n1 in range(NODES) for n2 in range(NODES)"
AdjacentPairs(t) ==
    LET n == t.NODES
        all == [k \in 1..(n * n) |-> <<(k - 1) \div n, (k - 1) % n>>]
        adjacent(x) == At(At(t.adjancy_list, x[1]), x[2]) # 0
    IN SelectSeq(all, adjacent)

\* flow_path: for f, for n1, for n2, if adjancy_list[n1][n2]
flow_path(t) ==
    LET pairs == AdjacentPairs(t)
        m == Len(pairs)
    IN [k \in 1..(t.FLOWS * m) |->
           LET f == (k - 1) \div m
               p == pairs[((k - 1) % m) + 1]
           IN <<FlowName(f, p[1], p[2]), FlowName(f, p[1], p[2])>>]

\* variant: for n2 in range(NODES), both orders of a pair
on_both_orders(t) ==
    LET pairs == AdjacentPairs(t)
    IN [k \in 1..Len(pairs) |->
           <<OnName(pairs[k][1], pairs[k][2]), OnName(pairs[k][1], pairs[k][2])>>]

\* on: for n1, for n2 in range(n1, NODES), if adjancy_list[n1][n2]
on(t) ==
    LET n == t.NODES
        all == [k \in 1..(n * n) |-> <<(k - 1) \div n, (k - 1) % n>>]
        adjacent(x) == x[2] >= x[1] /\ At(At(t.adjancy_list, x[1]), x[2]) # 0
        kept == SelectSeq(all, adjacent)
    IN [k \in 1..Len(kept) |->
           <<OnName(kept[k][1], kept[k][2]), OnName(kept[k][1], kept[k][2])>>]

(***************************************************************************)
(* vm_model, path_model, full_model: the variables they create and the     *)
(* keys path_model looks up in the placement assignment.                   *)
(***************************************************************************)
\* A linear expression is a sequence of terms <<coefficient, variable name>>
\* in the order the code adds them; a constraint is
\*     sum(terms) + const  sense  rhs      with sense "<=" or "==".
Constraint(label, terms, const, sense, rhs) ==
    [label |-> label, terms |-> terms, const |-> const, sense |-> sense, rhs |-> rhs]

\* "C{}-N{}".format(c, n)
ConstraintLabel(c, n) == "C" \o ToString(c) \o "-N" \o ToString(n)

\* server_status[i] and vm_status[i][j] as the builders index them
ServerVar(t, i) == At(server_status(t), i)
VmVar(t, i, j) == At(At(vm_status(t), i), j)

\* (11) of vm_model, server s (lines 234-245):
\* quicksum(cpu_util[vm] * vm_status[s][vm]) - server_capacity[s] * server_status[s] <= 0
\* variant: the capacity is not multiplied by server_status[s]
vm_C11_capacity_constant(t, s) ==
    Constraint(ConstraintLabel(11, s),
               [vm \in 1..t.VMS |-> <<At(t.cpu_util, vm - 1), VmVar(t, s, vm - 1)>>],
               0 - At(t.server_capacity, s), "<=", 0)
vm_C11(t, s) ==
    Constraint(ConstraintLabel(11, s),
               [vm \in 1..t.VMS |-> <<At(t.cpu_util, vm - 1), VmVar(t, s, vm - 1)>>]
                   \o << <<0 - At(t.server_capacity, s), ServerVar(t, s)>> >>,
               0, "<=", 0)

\* (12) of vm_model, VM vm (lines 248-255): quicksum(vm_status[s][vm]) == 1
vm_C12(t, vm) ==
    Constraint(ConstraintLabel(12, vm),
               [s \in 1..t.SERVERS |-> <<1, VmVar(t, s - 1, vm)>>],
               0, "==", 1)

\* the constraints of vm_model in the order they are added
vm_constraints(t) ==
    [s \in 1..t.SERVERS |-> vm_C11(t, s - 1)] \o [vm \in 1..t.VMS |-> vm_C12(t, vm - 1)]

\* the constraints of vm_cplex_model (fun_lib_IBM.py lines 138-155): the
\* same expressions, added without a label
vm_cplex_constraints(t) ==
    [k \in 1..Len(vm_constraints(t)) |-> [vm_constraints(t)[k] EXCEPT !.label = ""]]

\* obj1 of vm_model (lines 214-218): the idle power of every server
server_idle_objective(t) ==
    [k \in 1..t.SERVERS |->
        <<At(t.idle_powcons, (k - 1) + t.SWITCHES), ServerVar(t, k - 1)>>]

\* obj2 of vm_model (lines 220-227): for every server s and VM vm the term
\* dyn_powcons[s + SWITCHES] * cpu_util[vm] * vm_status[s][vm]
vm_dynamic_objective(t) ==
    [k \in 1..(t.SERVERS * t.VMS) |->
        LET srv == (k - 1) \div t.VMS
            vm == (k - 1) % t.VMS
        IN <<At(t.dyn_powcons, srv + t.SWITCHES) * At(t.cpu_util, vm), VmVar(t, srv, vm)>>]

\* cqm.set_objective(obj1 + obj2) of vm_model (line 229)
vm_objective(t) == server_idle_objective(t) \o vm_dynamic_objective(t)

\* the second sum of the objective of vm_cplex_model (fun_lib_IBM.py, lines
\* 165-171) and of full_cplex_model (lines 511-517): for every server s and
\* VM vm the term dyn_powcons[s + SWITCHES] * vm_status[vm][s] * cpu_util[vm]
vm_dynamic_cplex_objective(t) ==
    [k \in 1..(t.SERVERS * t.VMS) |->
        LET srv == (k - 1) \div t.VMS
            vm == (k - 1) % t.VMS
        IN <<At(t.dyn_powcons, srv + t.SWITCHES) * At(t.cpu_util, vm), VmVar(t, vm, srv)>>]

\* the objective of vm_cplex_model (fun_lib_IBM.py, lines 159-174)
vm_cplex_objective(t) == server_idle_objective(t) \o vm_dynamic_cplex_objective(t)

\* the variables and constraints of vm_model (lines 201-255); tree_after is
\* the tree argument as the call leaves it (its attributes are only read)
vm_model(t) ==
    [created |-> TRUE,
     server_status |-> server_status(t),
     vm_status |-> vm_status(t),
     constraints |-> vm_constraints(t),
     objective |-> vm_objective(t),
     tree_after |-> t]

\* every name vm_model created
VmModelNames(m) ==
    {m.server_status[s] : s \in 1..Len(m.server_status)}
    \cup {m.vm_status[s][vm] : s \in 1..Len(m.vm_status), vm \in 1..Len(m.vm_status[1])}

\* A placement assignment is a function from names to values; get(key) of a
\* key that is absent returns None.
EmptySolution == <<>>
Missing(sol, key) == key \notin DOMAIN sol

\* The lookups of C13 (j = 0), C14 (j = 1) and C15 (both), in loop order:
\* for f, for s in range(SWITCHES, SWITCHES + SERVERS).  A lookup is
\* recorded with the VM and the server it asks about and the key it uses.
\* variant: the server index first, the VM index second
VmKey_server_first(vm, s) == VmName(s, vm)
VmKey(vm, s) == VmName(vm, s)
VmLookup(t, f, s, j) ==
    LET vm == At(At(t.src_dst, f), j)
    IN [vm |-> vm, s |-> s - t.SWITCHES, key |-> VmKey(vm, s - t.SWITCHES)]
FlowServerPairs(t) ==
    [k \in 1..(t.FLOWS * t.SERVERS) |->
        <<(k - 1) \div t.SERVERS, t.SWITCHES + ((k - 1) % t.SERVERS)>>]
C13Lookups(t) ==
    LET fs == FlowServerPairs(t)
    IN [k \in 1..Len(fs) |-> VmLookup(t, fs[k][1], fs[k][2], 0)]
C14Lookups(t) ==
    LET fs == FlowServerPairs(t)
    IN [k \in 1..Len(fs) |-> VmLookup(t, fs[k][1], fs[k][2], 1)]

\* C15 subtracts the two looked-up values: None in either raises TypeError
C15Raises(t, sol) ==
    LET src == C13Lookups(t)
        dst == C14Lookups(t)
    IN \E k \in 1..Len(src) : Missing(sol, src[k].key) \/ Missing(sol, dst[k].key)

\* The lookups of C19 (lines 429-435), in link order: the second node of a
\* link, when it is a server.
ServerKey(s) == ServerName(s)
C19Lookups(t) ==
    LET links == [l \in 1..t.LINKS |-> get_nodes(l - 1, t.link_dict)]
        isServer(nn) == ~(nn[2] < t.SWITCHES)
        kept == SelectSeq(links, isServer)
    IN [k \in 1..Len(kept) |->
           [s |-> kept[k][2] - t.SWITCHES, key |-> ServerKey(kept[k][2] - t.SWITCHES)]]

\* C19 subtracts the looked-up value from a variable: None raises TypeError
C19Raises(t, sol) ==
    LET lookups == C19Lookups(t)
    IN \E k \in 1..Len(lookups) : Missing(sol, lookups[k].key)

\* the lookups C19 makes before it raises (all of them if it does not)
C19Read(t, sol) ==
    LET lookups == C19Lookups(t)
    IN {lookups[k] : k \in {i \in 1..Len(lookups) :
                               \A j \in 1..(i - 1) : ~Missing(sol, lookups[j].key)}}

Elements(seq) == {seq[k] : k \in 1..Len(seq)}

\* flow_path["f{}-n{}-n{}".format(f, n1, n2)], on["on{}-{}".format(n1, n2)]
\* and switch_status[sw]: the variable stored under the key
FlowVar(f, n1, n2) == FlowName(f, n1, n2)
OnVar(n1, n2) == OnName(n1, n2)
SwitchVar(t, sw) == At(switch_status(t), sw)

\* vm_solution.get(key) == 0: false for a missing key (None == 0)
\* variant: the test is  != 0
GetIsZero_not_equal(sol, key) == ~Missing(sol, key) /\ sol[key] # 0
GetIsZero(sol, key) == ~Missing(sol, key) /\ sol[key] = 0

\* quicksum(flow_path[f, s, sw] for sw in range(SWITCHES) if adjancy_list[s][sw] == 1)
FlowOut(t, f, s, coef) ==
    LET sws == SelectSeq(Range(0, t.SWITCHES), LAMBDA sw : At(At(t.adjancy_list, s), sw) = 1)
    IN [k \in 1..Len(sws) |-> <<coef, FlowVar(f, s, sws[k])>>]
\* quicksum(flow_path[f, sw, s] for sw in range(SWITCHES) if adjancy_list[sw][s] == 1)
FlowIn(t, f, s, coef) ==
    LET sws == SelectSeq(Range(0, t.SWITCHES), LAMBDA sw : At(At(t.adjancy_list, sw), s) = 1)
    IN [k \in 1..Len(sws) |-> <<coef, FlowVar(f, sws[k], s)>>]

\* (13) of path_model (lines 327-338): generated when the looked-up value == 0
path_C13(t, sol) ==
    LET fs == FlowServerPairs(t)
        kept == SelectSeq(fs, LAMBDA x : GetIsZero(sol, VmLookup(t, x[1], x[2], 0).key))
    IN [k \in 1..Len(kept) |->
           Constraint(ConstraintLabel(13, kept[k][1] * t.SERVERS + kept[k][2]),
                      FlowOut(t, kept[k][1], kept[k][2], 1), 0, "==", 0)]

\* (14) of path_model (lines 341-352)
path_C14(t, sol) ==
    LET fs == FlowServerPairs(t)
        kept == SelectSeq(fs, LAMBDA x : GetIsZero(sol, VmLookup(t, x[1], x[2], 1).key))
    IN [k \in 1..Len(kept) |->
           Constraint(ConstraintLabel(14, kept[k][1] * t.SERVERS + kept[k][2]),
                      FlowIn(t, kept[k][1], kept[k][2], 1), 0, "==", 0)]

\* (15) of path_model (lines 355-374), for the pairs before the first one
\* whose lookup returns None:
\* get(src) - get(dst) - (quicksum(out) - quicksum(in)) == 0
path_C15(t, sol) ==
    LET fs == FlowServerPairs(t)
        src == C13Lookups(t)
        dst == C14Lookups(t)
        ok(k) == ~Missing(sol, src[k].key) /\ ~Missing(sol, dst[k].key)
        done == {k \in 1..Len(fs) : \A j \in 1..k : ok(j)}
    IN [k \in 1..Cardinality(done) |->
           Constraint(ConstraintLabel(15, fs[k][1] * t.SERVERS + fs[k][2]),
                      FlowOut(t, fs[k][1], fs[k][2], 0 - 1) \o FlowIn(t, fs[k][1], fs[k][2], 1),
                      sol[src[k].key] - sol[dst[k].key], "==", 0)]

\* (16) (lines 377-392): for sw, for f
\* quicksum(flow[f, n, sw] if adj[n][sw]) - quicksum(flow[f, sw, n] if adj[sw][n]) == 0
\* variant: the sums run over every node, adjacent or not
C16_without_adjacency(t) ==
    [k \in 1..(t.SWITCHES * t.FLOWS) |->
        LET sw == (k - 1) \div t.FLOWS
            f == (k - 1) % t.FLOWS
            every == Range(0, t.NODES)
        IN Constraint(ConstraintLabel(16, sw * t.FLOWS + f),
                      [j \in 1..Len(every) |-> <<1, FlowVar(f, every[j], sw)>>]
                          \o [j \in 1..Len(every) |-> <<0 - 1, FlowVar(f, sw, every[j])>>],
                      0, "==", 0)]
C16(t) ==
    [k \in 1..(t.SWITCHES * t.FLOWS) |->
        LET sw == (k - 1) \div t.FLOWS
            f == (k - 1) % t.FLOWS
            into == SelectSeq(Range(0, t.NODES), LAMBDA n : At(At(t.adjancy_list, n), sw) = 1)
            outof == SelectSeq(Range(0, t.NODES), LAMBDA n : At(At(t.adjancy_list, sw), n) = 1)
        IN Constraint(ConstraintLabel(16, sw * t.FLOWS + f),
                      [j \in 1..Len(into) |-> <<1, FlowVar(f, into[j], sw)>>]
                          \o [j \in 1..Len(outof) |-> <<0 - 1, FlowVar(f, sw, outof[j])>>],
                      0, "==", 0)]

\* n1, n2 = get_nodes(l, tree.link_dict) for every link
LinkNodes(t) == [l \in 1..t.LINKS |-> get_nodes(l - 1, t.link_dict)]

\* (17) (lines 395-408), link l with nodes nn:
\* quicksum(data_rate[f] * (flow[f, n1, n2] + flow[f, n2, n1])) - link_capacity[l] * on[n1, n2] <= 0
C17(t, l, nn) ==
    Constraint(ConstraintLabel(17, l),
               [k \in 1..(2 * t.FLOWS) |->
                   LET f == (k - 1) \div 2
                   IN <<At(t.data_rate, f),
                        IF k % 2 = 1 THEN FlowVar(f, nn[1], nn[2]) ELSE FlowVar(f, nn[2], nn[1])>>]
                   \o << <<0 - At(t.link_capacity, l), OnVar(nn[1], nn[2])>> >>,
               0, "<=", 0)

\* (18) (lines 414-419): on[n1, n2] - switch_status[n1] <= 0
C18(t, l, nn) ==
    Constraint(ConstraintLabel(18, l),
               << <<1, OnVar(nn[1], nn[2])>>, <<0 - 1, SwitchVar(t, nn[1])>> >>, 0, "<=", 0)

\* (19) when the second node is a switch (lines 421-427, 671-677):
\* on[n1, n2] - switch_status[n2] <= 0
C19_switch(t, l, nn) ==
    Constraint(ConstraintLabel(19, l),
               << <<1, OnVar(nn[1], nn[2])>>, <<0 - 1, SwitchVar(t, nn[2])>> >>, 0, "<=", 0)

\* (19) of path_model when the second node is a server (lines 428-435):
\* on[n1, n2] - vm_solution.get("s{}".format(n2 - SWITCHES)) == 0
\* variant: the constraint is an inequality
path_C19_server_inequality(t, sol, l, nn) ==
    Constraint(ConstraintLabel(19, l),
               << <<1, OnVar(nn[1], nn[2])>> >>,
               0 - sol[ServerKey(nn[2] - t.SWITCHES)], "<=", 0)
path_C19_server(t, sol, l, nn) ==
    Constraint(ConstraintLabel(19, l),
               << <<1, OnVar(nn[1], nn[2])>> >>,
               0 - sol[ServerKey(nn[2] - t.SWITCHES)], "==", 0)

\* (18)(19) of path_model (lines 411-435): for every link C18 and then C19,
\* up to the first server lookup that returns None (C18 of that link is
\* added before C19 raises)
RECURSIVE path_C18_C19(_, _, _, _, _)
path_C18_C19(t, sol, links, l, acc) ==
    IF l >= Len(links) THEN acc
    ELSE LET nn == links[l + 1]
             with18 == acc \o <<C18(t, l, nn)>>
         IN IF nn[2] < t.SWITCHES
            THEN path_C18_C19(t, sol, links, l + 1, with18 \o <<C19_switch(t, l, nn)>>)
            ELSE IF Missing(sol, ServerKey(nn[2] - t.SWITCHES))
                 THEN with18
                 ELSE path_C18_C19(t, sol, links, l + 1,
                                   with18 \o <<path_C19_server(t, sol, l, nn)>>)

\* the objective of path_model (lines 302-320): obj3 + obj4, the terms in
\* the order they are summed:
\*   switch_status[sw] * idle_powcons[sw]  for sw
\*   dyn_powcons[sw] * (flow[f, n, sw] + flow[f, sw, n])
\*       for n, for f, for sw if adjancy_list[n][sw] == 1
path_objective(t) ==
    LET obj3 == [k \in 1..t.SWITCHES |-> <<At(t.idle_powcons, k - 1), SwitchVar(t, k - 1)>>]
        all == [k \in 1..(t.NODES * t.FLOWS * t.SWITCHES) |->
                   <<(k - 1) \div (t.FLOWS * t.SWITCHES),
                     ((k - 1) \div t.SWITCHES) % t.FLOWS,
                     (k - 1) % t.SWITCHES>>]
        kept == SelectSeq(all, LAMBDA x : At(At(t.adjancy_list, x[1]), x[3]) = 1)
        obj4 == [k \in 1..(2 * Len(kept)) |->
                    LET x == kept[(k + 1) \div 2]
                    IN <<At(t.dyn_powcons, x[3]),
                         IF k % 2 = 1 THEN FlowVar(x[2], x[1], x[3])
                         ELSE FlowVar(x[2], x[3], x[1])>>]
    IN obj3 \o obj4

\* the constraints path_model has added when it returns or raises
path_constraints(t, sol) ==
    LET links == LinkNodes(t)
    IN path_C13(t, sol) \o path_C14(t, sol) \o path_C15(t, sol)
       \o (IF C15Raises(t, sol) THEN <<>>
           ELSE C16(t) \o [l \in 1..t.LINKS |-> C17(t, l - 1, links[l])]
                \o path_C18_C19(t, sol, links, 0, <<>>))

\* path_model (lines 259-435): the variables are created first, then the
\* constraints are generated in order; the first exception ends the build.
\* C15 repeats the lookups of C13 and C14.  tree_after and vm_solution_after
\* are the two arguments as the call leaves them: the tree is only read and
\* the assignment is only queried with get.
path_model(t, sol) ==
    [created |-> TRUE,
     switch_status |-> switch_status(t),
     flow_path |-> flow_path(t),
     on |-> on(t),
     objective |-> path_objective(t),
     constraints |-> path_constraints(t, sol),
     vm_reads |-> Elements(C13Lookups(t)) \cup Elements(C14Lookups(t)),
     server_reads |-> IF C15Raises(t, sol) THEN {} ELSE C19Read(t, sol),
     raised |-> IF C15Raises(t, sol) \/ C19Raises(t, sol) THEN "TypeError" ELSE "none",
     tree_after |-> t,
     vm_solution_after |-> sol]

\* (13) of full_model (lines 576-587), for every flow and server:
\* quicksum(out) - vm_status[src_dst[f][0]][s - SWITCHES] <= 0
full_C13(t) ==
    LET fs == FlowServerPairs(t)
    IN [k \in 1..Len(fs) |->
           Constraint(ConstraintLabel(13, fs[k][1] * t.SERVERS + fs[k][2]),
                      FlowOut(t, fs[k][1], fs[k][2], 1)
                          \o << <<0 - 1, VmVar(t, At(At(t.src_dst, fs[k][1]), 0),
                                               fs[k][2] - t.SWITCHES)>> >>,
                      0, "<=", 0)]

\* (14) of full_model (lines 590-601):
\* quicksum(in) - vm_status[src_dst[f][1]][s - SWITCHES] <= 0
full_C14(t) ==
    LET fs == FlowServerPairs(t)
    IN [k \in 1..Len(fs) |->
           Constraint(ConstraintLabel(14, fs[k][1] * t.SERVERS + fs[k][2]),
                      FlowIn(t, fs[k][1], fs[k][2], 1)
                          \o << <<0 - 1, VmVar(t, At(At(t.src_dst, fs[k][1]), 1),
                                               fs[k][2] - t.SWITCHES)>> >>,
                      0, "<=", 0)]

\* (15) of full_model (lines 604-623):
\* vm_status[src][s - SWITCHES] - vm_status[dst][s - SWITCHES]
\*     - (quicksum(out) - quicksum(in)) == 0
full_C15(t) ==
    LET fs == FlowServerPairs(t)
    IN [k \in 1..Len(fs) |->
           Constraint(ConstraintLabel(15, fs[k][1] * t.SERVERS + fs[k][2]),
                      << <<1, VmVar(t, At(At(t.src_dst, fs[k][1]), 0), fs[k][2] - t.SWITCHES)>>,
                         <<0 - 1, VmVar(t, At(At(t.src_dst, fs[k][1]), 1), fs[k][2] - t.SWITCHES)>> >>
                          \o FlowOut(t, fs[k][1], fs[k][2], 0 - 1)
                          \o FlowIn(t, fs[k][1], fs[k][2], 1),
                      0, "==", 0)]

\* (19) of full_model when the second node is a server (lines 678-684):
\* on[n1, n2] - server_status[n2 - SWITCHES] <= 0
\* variant: the constraint is an equality
full_C19_server_equality(t, l, nn) ==
    Constraint(ConstraintLabel(19, l),
               << <<1, OnVar(nn[1], nn[2])>>, <<0 - 1, ServerVar(t, nn[2] - t.SWITCHES)>> >>,
               0, "==", 0)
full_C19_server(t, l, nn) ==
    Constraint(ConstraintLabel(19, l),
               << <<1, OnVar(nn[1], nn[2])>>, <<0 - 1, ServerVar(t, nn[2] - t.SWITCHES)>> >>,
               0, "<=", 0)

\* (18)(19) of full_model (lines 660-684): for every link C18 and then C19
full_C18_C19(t, links) ==
    [k \in 1..(2 * t.LINKS) |->
        LET l == (k - 1) \div 2
            nn == links[l + 1]
        IN IF k % 2 = 1 THEN C18(t, l, nn)
           ELSE IF nn[2] < t.SWITCHES THEN C19_switch(t, l, nn)
           ELSE full_C19_server(t, l, nn)]

\* the constraints of full_model in the order they are added (lines 548-684)
full_constraints(t) ==
    LET links == LinkNodes(t)
    IN vm_constraints(t) \o full_C13(t) \o full_C14(t) \o full_C15(t) \o C16(t)
       \o [l \in 1..t.LINKS |-> C17(t, l - 1, links[l])]
       \o full_C18_C19(t, links)

\* obj1 of full_model (lines 512-516)
full_obj1(t) ==
    [k \in 1..t.SERVERS |->
        <<At(t.idle_powcons, (k - 1) + t.SWITCHES), ServerVar(t, k - 1)>>]
\* obj2 of full_model (lines 518-525)
full_obj2(t) ==
    [k \in 1..(t.SERVERS * t.VMS) |->
        LET srv == (k - 1) \div t.VMS
            vm == (k - 1) % t.VMS
        IN <<At(t.dyn_powcons, srv + t.SWITCHES) * At(t.cpu_util, vm), VmVar(t, srv, vm)>>]
\* obj3 of full_model (lines 527-531)
full_obj3(t) ==
    [k \in 1..t.SWITCHES |-> <<At(t.idle_powcons, k - 1), SwitchVar(t, k - 1)>>]
\* obj4 of full_model (lines 533-543): for n, for f, for sw with n and sw
\* adjacent, dyn_powcons[sw] on the flow variables of both directions
full_obj4(t) ==
    LET all == [k \in 1..(t.NODES * t.FLOWS * t.SWITCHES) |->
                   <<(k - 1) \div (t.FLOWS * t.SWITCHES),
                     ((k - 1) \div t.SWITCHES) % t.FLOWS,
                     (k - 1) % t.SWITCHES>>]
        kept == SelectSeq(all, LAMBDA x : At(At(t.adjancy_list, x[1]), x[3]) = 1)
    IN [k \in 1..(2 * Len(kept)) |->
           LET x == kept[(k + 1) \div 2]
           IN <<At(t.dyn_powcons, x[3]),
                IF k % 2 = 1 THEN FlowVar(x[2], x[1], x[3])
                ELSE FlowVar(x[2], x[3], x[1])>>]

\* variant: the joint objective without the idle power of the switches
full_objective_without_obj3(t) == full_obj1(t) \o full_obj2(t) \o full_obj4(t)
\* cqm.set_objective(obj1 + obj2 + obj3 + obj4) of full_model (line 545)
full_objective(t) == full_obj1(t) \o full_obj2(t) \o full_obj3(t) \o full_obj4(t)

\* the objective of full_cplex_model (fun_lib_IBM.py, lines 505-535)
full_cplex_objective(t) == vm_cplex_objective(t) \o path_objective(t)

\* the variables and constraints of full_model (lines 481-684)
\* variant: the flows of the tree argument are re-paired in place
full_model_repairs_flows(t) ==
    [created |-> TRUE,
     server_status |-> server_status(t),
     vm_status |-> vm_status(t),
     switch_status |-> switch_status(t),
     flow_path |-> flow_path(t),
     on |-> on(t),
     constraints |-> full_constraints(t),
     objective |-> full_objective(t),
     tree_after |-> [t EXCEPT !.src_dst = [f \in 1..t.FLOWS |-> <<t.src_dst[f][2], t.src_dst[f][1]>>]]]
full_model(t) ==
    [created |-> TRUE,
     server_status |-> server_status(t),
     vm_status |-> vm_status(t),
     switch_status |-> switch_status(t),
     flow_path |-> flow_path(t),
     on |-> on(t),
     constraints |-> full_constraints(t),
     objective |-> full_objective(t),
     tree_after |-> t]

(***************************************************************************)
(* Assignments and feasibility.  An assignment is a function from variable *)
(* names to 0/1; a sample is feasible when it satisfies every constraint   *)
(* of the model (sample.is_feasible, line 150).                            *)
(***************************************************************************)
RECURSIVE SumTerms(_, _, _)
SumTerms(terms, a, acc) ==
    IF terms = <<>> THEN acc
    ELSE SumTerms(Tail(terms), a, acc + Head(terms)[1] * a[Head(terms)[2]])

Satisfies(a, c) ==
    LET lhs == SumTerms(c.terms, a, c.const)
    IN IF c.sense = "==" THEN lhs = c.rhs ELSE lhs <= c.rhs

Feasible(constraints, a) ==
    \A k \in 1..Len(constraints) : Satisfies(a, constraints[k])

\* the assignment of the variables of vm_model with the servers of
\* on_servers on and the (vm, server) pairs of placed set
AssignmentOf(t, on_servers, placed) ==
    LET on_names == {ServerName(s) : s \in on_servers}
        placed_names == {VmName(p[1], p[2]) : p \in placed}
    IN [name \in VmModelNames([server_status |-> server_status(t), vm_status |-> vm_status(t)]) |->
           IF name \in on_names \/ name \in placed_names THEN 1 ELSE 0]

\* VM v on server (v + k) mod SERVERS
Rotation(t, k) == {<<vm, (vm + k) % t.SERVERS>> : vm \in 0..(t.VMS - 1)}

\* every server on, VM v on server (v + k) mod SERVERS
RotationPlacement(t, k) == AssignmentOf(t, 0..(t.SERVERS - 1), Rotation(t, k))

\* The samples the model lets the sampler draw: every 0/1 assignment for a
\* tree with two servers; for a larger tree the rotations with every
\* server on, with no server on and with server 0 off, and the first
\* rotation with VM 0 on two servers and with VM 0 on none.
Samples(t) ==
    LET servers == 0..(t.SERVERS - 1)
    IN IF t.SERVERS <= MaxAllSamplesServers
       THEN {AssignmentOf(t, on_servers, placed) :
                on_servers \in SUBSET servers,
                placed \in SUBSET ((0..(t.VMS - 1)) \X servers)}
       ELSE {AssignmentOf(t, on_servers, Rotation(t, k)) :
                on_servers \in {servers, {}, servers \ {0}}, k \in servers}
            \cup {AssignmentOf(t, servers, Rotation(t, 0) \cup {<<0, 1>>}),
                  AssignmentOf(t, servers, Rotation(t, 0) \ {<<0, 0>>})}

\* The placement assignment the solver hands back (lines 152-167): the
\* first feasible sample, whichever the sampler ranked first, or the empty
\* one when no sample is feasible.
Solutions(t) ==
    {EmptySolution} \cup {a \in Samples(t) : Feasible(vm_constraints(t), a)}

(***************************************************************************)
(* The solution file: json.dump in detailed_cqm_solver (lines 160-163) and *)
(* json.loads in path_model (lines 293-299).                               *)
(***************************************************************************)
\* the order of the keys of a sample: the variables of the placement model
SampleOrder(t) == server_status(t) \o Concat(vm_status(t))

\* json's text of a sample value, a float holding 0 or 1: "0.0" or "1.0"
FloatRepr(v) == ToString(v) \o ".0"

\* json's text of one entry: "key": value
JsonItem(key, v) == "\"" \o key \o "\": " \o FloatRepr(v)

\* ", ".join of the entries of keys[lo..hi], joined by halves
RECURSIVE JsonJoin(_, _, _, _)
JsonJoin(sol, keys, lo, hi) ==
    IF lo > hi THEN ""
    ELSE IF lo = hi THEN JsonItem(keys[lo], sol[keys[lo]])
    ELSE LET mid == (lo + hi) \div 2
         IN JsonJoin(sol, keys, lo, mid) \o ", " \o JsonJoin(sol, keys, mid + 1, hi)

\* variant: the dump loses its last entry
JsonDump_drops_last(sol, keys) ==
    "{" \o JsonJoin(sol, keys, 1, Len(keys) - 1) \o "}"
\* json.dump(best_solution, fp): {"k": v, "k": v, ...} in the order of keys
JsonDump(sol, keys) == "{" \o JsonJoin(sol, keys, 1, Len(keys)) \o "}"

\* the character of text at position i
CharAt(text, i) == SubSeq(text, i, i)

\* float(numeral): the numerals of the file have a fraction of zeros
ParseFloat(str) ==
    LET dots == {i \in 1..Len(str) : CharAt(str, i) = "."}
    IN IF dots = {} THEN ParseInt(str)
       ELSE ParseInt(SubSeq(str, 1, (CHOOSE i \in dots : \A j \in dots : i <= j) - 1))

\* json.loads(text) of an object of numbers: the entries lie between "{",
\* each ", " and "}"; an entry is a quoted key, ": " and a numeral; of two
\* entries with one key the later one counts
JsonLoads(text) ==
    LET n == Len(text)
        seps == {i \in 2..(n - 2) : SubSeq(text, i, i + 1) = ", "}
        starts == {2} \cup {i + 2 : i \in seps}
        EndOf(a) == LET later == {i \in seps : i > a}
                    IN IF later = {} THEN n - 1
                       ELSE (CHOOSE i \in later : \A j \in later : i <= j) - 1
        ColonOf(a) == CHOOSE i \in a..EndOf(a) :
                          /\ SubSeq(text, i, i + 2) = "\": "
                          /\ \A j \in a..(i - 1) : SubSeq(text, j, j + 2) # "\": "
        KeyOf(a) == SubSeq(text, a + 1, ColonOf(a) - 1)
        ValueOf(a) == ParseFloat(SubSeq(text, ColonOf(a) + 3, EndOf(a)))
        entries == {<<a, KeyOf(a), ValueOf(a)>> : a \in starts}
    IN IF text = "{}" THEN EmptySolution
       ELSE [k \in {e[2] : e \in entries} |->
                (CHOOSE e \in entries :
                    /\ e[2] = k
                    /\ \A other \in entries : other[2] = k => other[1] <= e[1])[3]]

\* a solution file left by an earlier run on a tree with two servers
StaleFile ==
    [exists |-> TRUE,
     text |-> "{\"s0\": 1.0, \"s1\": 1.0, \"vm0-s0\": 0.0, \"vm0-s1\": 1.0, \"vm1-s0\": 1.0, \"vm1-s1\": 0.0}"]

\* a solution file whose text was tampered with: a value that is not 0 or 1
\* and a key that names no placement variable
CorruptFile ==
    [exists |-> TRUE,
     text |-> "{\"s0\": 1.0, \"s1\": 1.0, \"vm0-s0\": 2.0, \"vm0-s1\": 1.0, \"vm1-s0\": 1.0, \"vm1-s1\": 0.0, \"x\": 1.0}"]

\* path_model(tree, cqm, vm_solution, load = True): the variables are
\* created, then the file is opened (FileNotFoundError when it is absent,
\* before the objective and any constraint) and its assignment takes the
\* place of the argument inside the call; the caller's assignment stays
path_model_load(t, sol, file) ==
    IF file.exists
    THEN [path_model(t, JsonLoads(file.text)) EXCEPT !.vm_solution_after = sol]
    ELSE [created |-> TRUE,
          switch_status |-> switch_status(t),
          flow_path |-> flow_path(t),
          on |-> on(t),
          objective |-> <<>>,
          constraints |-> <<>>,
          vm_reads |-> {},
          server_reads |-> {},
          raised |-> "FileNotFoundError",
          tree_after |-> t,
          vm_solution_after |-> sol]

(***************************************************************************)
(* The run statistics: info_writer (structures.py, lines 310-331) and the  *)
(* dictionaries the solvers hand to it.                                    *)
(***************************************************************************)
\* the values of a dictionary: a string, an integer, a float with one
\* decimal digit, or None
StrValue(text) == [kind |-> "str", text |-> text, n |-> 0, tenths |-> 0]
IntValue(n) == [kind |-> "int", text |-> "", n |-> n, tenths |-> 0]
FloatValue(n, tenths) == [kind |-> "float", text |-> "", n |-> n, tenths |-> tenths]
NoneValue == [kind |-> "None", text |-> "", n |-> 0, tenths |-> 0]

\* f"{v}"
Format(v) ==
    IF v.kind = "str" THEN v.text
    ELSE IF v.kind = "int" THEN ToString(v.n)
    ELSE IF v.kind = "float" THEN ToString(v.n) \o "." \o ToString(v.tenths)
    ELSE "None"

\* for k in dictionary.keys(): file.write(f"{k}\t"), then file.write("\n")
RECURSIVE WriteKeys(_)
WriteKeys(d) ==
    IF d = <<>> THEN "\n" ELSE Head(d)[1] \o "\t" \o WriteKeys(Tail(d))

\* for v in dictionary.values(): file.write(f"{v}\t"), then file.write("\n")
RECURSIVE WriteValues(_)
WriteValues(d) ==
    IF d = <<>> THEN "\n" ELSE Format(Head(d)[2]) \o "\t" \o WriteValues(Tail(d))

\* variant: the heads are written by every call
writeheads_always(file) == TRUE
\* writeheads: the path does not exist yet (lines 318-319)
writeheads(file) == ~file.exists

\* the file after info_writer(dictionary, path): opened for appending
info_writer(file, dictionary) ==
    [exists |-> TRUE,
     text |-> file.text
              \o (IF writeheads(file) THEN WriteKeys(dictionary) ELSE "")
              \o WriteValues(dictionary)]

\* The dictionaries of the calls: cplex_solver's status, time and energy
\* with and without a solution (fun_lib_IBM.py, lines 101-106),
\* detailed_cqm_solver's timers in seconds and energy (fun_lib_DWAVE.py,
\* lines 169-175), a dictionary with one key and an empty one.
LogDicts ==
    {<<<<"status", StrValue("Feasible")>>, <<"time", FloatValue(0, 3)>>, <<"energy", IntValue(70)>>>>,
     <<<<"status", StrValue("Optimal")>>, <<"time", FloatValue(5, 0)>>, <<"energy", IntValue(68)>>>>,
     <<<<"status", StrValue("Unknown")>>, <<"time", FloatValue(5, 1)>>, <<"energy", NoneValue>>>>,
     <<<<"qpu_access_time", FloatValue(0, 0)>>, <<"charge_time", FloatValue(5, 0)>>,
       <<"run_time", FloatValue(5, 1)>>, <<"energy", FloatValue(70, 0)>>>>,
     <<<<"energy", FloatValue(0, 0)>>>>,
     <<>>}

\* a statistics file left by an earlier run
OldLog == [exists |-> TRUE, text |-> "status\ttime\tenergy\t\nOptimal\t1.2\t70\t\n"]

(***************************************************************************)
(* The IBM builders and solver and the loops of the main scripts           *)
(* (main_IBM.py, lines 66-122; main_DWAVE.py, lines 73-126).               *)
(***************************************************************************)
\* the constraints of a builder as docplex holds them: without labels
Unlabelled(constraints) ==
    [k \in 1..Len(constraints) |-> [constraints[k] EXCEPT !.label = ""]]

\* vm_cplex_model (fun_lib_IBM.py, lines 113-155): the variables and
\* constraints of vm_model
vm_cplex_model(t) ==
    [created |-> TRUE,
     server_status |-> server_status(t),
     vm_status |-> vm_status(t),
     constraints |-> vm_cplex_constraints(t),
     objective |-> vm_cplex_objective(t)]

\* path_cplex_model (fun_lib_IBM.py, lines 178-334): the variables and
\* constraints of path_model with the same lookups in the assignment; the
\* objective is added last, so it is missing when a lookup raised
path_cplex_model(t, sol) ==
    LET m == path_model(t, sol)
    IN [created |-> TRUE,
        switch_status |-> m.switch_status,
        flow_path |-> m.flow_path,
        on |-> m.on,
        objective |-> IF m.raised = "none" THEN m.objective ELSE <<>>,
        constraints |-> Unlabelled(m.constraints),
        vm_reads |-> m.vm_reads,
        server_reads |-> m.server_reads,
        raised |-> m.raised]

\* full_cplex_model (fun_lib_IBM.py, lines 338-510): the variables and
\* constraints of full_model
full_cplex_model(t) ==
    LET m == full_model(t)
    IN [created |-> TRUE,
        server_status |-> m.server_status,
        vm_status |-> m.vm_status,
        switch_status |-> m.switch_status,
        flow_path |-> m.flow_path,
        on |-> m.on,
        constraints |-> Unlabelled(m.constraints),
        objective |-> full_cplex_objective(t)]

\* The placement assignment cplex_solver hands back (fun_lib_IBM.py, lines
\* 83-92): to_dictionary of a solution of the model, or {} when the solver
\* found none in its time.
CplexSolutions(t) ==
    {EmptySolution} \cup {a \in Samples(t) : Feasible(vm_cplex_constraints(t), a)}

\* SAVE of main_IBM.py
SAVE == TRUE

\* What one call of cplex_solver does (fun_lib_IBM.py, lines 40-109): it
\* solves the model object it is given, writes the solution file when a
\* solution was found and saving is on, appends to the statistics file and
\* returns the dictionary ({} without a solution).  This is the entry the
\* call leaves in solve_log; cplex_solver_call gives the files it writes.
cplex_solver(model, label, pass, found, dictionary) ==
    [label |-> label,
     model |-> model,
     iteration |-> pass,
     found |-> found,
     returned |-> IF found THEN dictionary ELSE EmptySolution,
     solution_written |-> found /\ SAVE,
     info_written |-> TRUE]

\* variant: the name vm_solution keeps the assignment of the first pass
bind_vm_solution_once(old, returned) == IF old = EmptySolution THEN returned ELSE old
\* vm_solution = cplex_solver(...): the name is bound to what the call returned
bind_vm_solution(old, returned) == returned

(***************************************************************************)
(* The solutions the solver hands back for the path and the full model     *)
(* (fun_lib_IBM.py, lines 64-75 and 84-87): values for every variable of   *)
(* the model.                                                              *)
(***************************************************************************)
\* solution.get_all_var_solutions(): the variables of a built model
CplexVariables(m) ==
    (IF "server_status" \in DOMAIN m THEN VmModelNames(m) ELSE {})
    \cup (IF "switch_status" \in DOMAIN m
          THEN {m.switch_status[k] : k \in 1..Len(m.switch_status)}
               \cup DictValues(m.flow_path) \cup DictValues(m.on)
          ELSE {})

\* the server node that hosts a VM under a placement with one host per VM
HostNode(t, placement, vm) ==
    t.SWITCHES + (CHOOSE s \in 0..(t.SERVERS - 1) : placement[VmName(vm, s)] = 1)

\* the switch a server hangs on (son = father * 2 + 1 + i)
FatherOf(n) == (n - 1) \div 2

\* the nodes a flow visits from server a to server b: up to the father,
\* across the first switch of the level above when the fathers differ, and
\* down again
Hops(t, a, b) ==
    IF FatherOf(a) = FatherOf(b) THEN <<a, FatherOf(a), b>>
    ELSE <<a, FatherOf(a), 2 ^ (t.DEPTH - 2) - 1, FatherOf(b), b>>

\* the flow variables set by sending every flow along its hops
RoutedFlows(t, placement) ==
    UNION {LET h == Hops(t, HostNode(t, placement, At(At(t.src_dst, f), 0)),
                            HostNode(t, placement, At(At(t.src_dst, f), 1)))
           IN {FlowName(f, h[i], h[i + 1]) : i \in 1..(Len(h) - 1)} :
           f \in 0..(t.FLOWS - 1)}

\* the assignment of the variables of m that keeps the placement, has every
\* switch and every link on and sends every flow along its hops
RoutedAssignment(t, m, placement) ==
    LET flows == DictValues(m.flow_path)
        routed == RoutedFlows(t, placement)
    IN [n \in CplexVariables(m) |->
           IF n \in DOMAIN placement THEN placement[n]
           ELSE IF n \in flows THEN (IF n \in routed THEN 1 ELSE 0)
           ELSE 1]

\* What model.solve may hold for the variables of the path or full model m:
\* the routed assignments of the given placements that satisfy the
\* constraints of m.  cplex_solver hands the values on as they are
\* (to_dictionary reads names and values only) and does not check them; the
\* assignment with every variable 1 stands for a result object that holds
\* other values.
CplexResults(t, m, placements) ==
    {a \in {RoutedAssignment(t, m, p) : p \in placements} :
        Feasible(m.constraints, a)}
    \cup {[n \in CplexVariables(m) |-> 1]}

(***************************************************************************)
(* The solver adapters with their files: cplex_solver (fun_lib_IBM.py,     *)
(* lines 40-109) and detailed_cqm_solver (fun_lib_DWAVE.py, lines          *)
(* 122-184).                                                               *)
(***************************************************************************)
\* ord(ch) of the characters of the variable names up to a shift: their
\* place in the order of the code points, by which Python compares strings
ord ==
    LET characters == "-0123456789abcdefghijklmnopqrstuvwxyz"
        places == 1..Len(characters)
    IN [ch \in {SubSeq(characters, i, i) : i \in places} |->
           CHOOSE i \in places : SubSeq(characters, i, i) = ch]

\* the order of the characters of the variable names
CharRank(ch) == ord[ch]

\* a < b on strings
RECURSIVE StrLess(_, _)
StrLess(a, b) ==
    IF a = "" THEN b # ""
    ELSE IF b = "" THEN FALSE
    ELSE IF Head(a) = Head(b) THEN StrLess(Tail(a), Tail(b))
    ELSE CharRank(Head(a)) < CharRank(Head(b))

\* to_dictionary (fun_lib_IBM.py, lines 21-36): the keys of the solution
\* sorted as strings
RECURSIVE to_dictionary_keys(_)
to_dictionary_keys(keys) ==
    IF Len(keys) <= 1 THEN keys
    ELSE LET k == Head(keys)
             rest == to_dictionary_keys(Tail(keys))
         IN SelectSeq(rest, LAMBDA j : StrLess(j, k)) \o <<k>>
            \o SelectSeq(rest, LAMBDA j : ~StrLess(j, k))

\* json's text of an integer value
RECURSIVE JsonJoinInt(_, _, _, _)
JsonJoinInt(sol, keys, lo, hi) ==
    IF lo > hi THEN ""
    ELSE IF lo = hi THEN "\"" \o keys[lo] \o "\": " \o ToString(sol[keys[lo]])
    ELSE LET mid == (lo + hi) \div 2
         IN JsonJoinInt(sol, keys, lo, mid) \o ", " \o JsonJoinInt(sol, keys, mid + 1, hi)
\* json.dump(sol_dictionary, fp) of cplex_solver: integer values
JsonDumpInt(sol, keys) == "{" \o JsonJoinInt(sol, keys, 1, Len(keys)) \o "}"

\* solution.get_objective_value() (lines 79, 105): the objective of the
\* solution found; the result object holds no objective value without a
\* solution and the call gives None
get_objective_value(found, objective, sol) ==
    IF found THEN IntValue(SumTerms(objective, sol, 0)) ELSE NoneValue

\* what the solve reports next to the solution (lines 102-103): the status
\* and the time of a solve that found something, and of one that did not
CplexOutcomes(found) ==
    IF found
    THEN {[status |-> "Feasible", time |-> FloatValue(0, 3)]}
    ELSE {[status |-> "Unknown", time |-> FloatValue(5, 1)]}

\* cplex_solver with its files (lines 40-109): sol is the solution of the
\* solve (EmptySolution: is_solution() is false), out its status and time.
\* Without a solution the dictionary is {} and save_solution is switched
\* off; the statistics are written in both cases.
cplex_solver_call(m, keys, sol, out, save_solution, file, log) ==
    LET found == sol # EmptySolution
        sorted == to_dictionary_keys(keys)
        sol_dictionary == IF found THEN sol ELSE EmptySolution
        save == IF found THEN save_solution ELSE FALSE
        energy == get_objective_value(found, m.objective, sol)
        dictionary == <<<<"status", StrValue(out.status)>>,
                        <<"time", out.time>>,
                        <<"energy", energy>>>>
    IN [returned |-> sol_dictionary,
        found |-> found,
        energy |-> energy,
        solution_file |-> IF save
                          THEN [exists |-> TRUE, text |-> JsonDumpInt(sol_dictionary, sorted)]
                          ELSE file,
        solution_written |-> save,
        info |-> <<dictionary>>,
        log_file |-> info_writer(log, dictionary)]

\* "time" in key
RECURSIVE HasTime(_)
HasTime(key) ==
    IF Len(key) < 4 THEN FALSE
    ELSE IF SubSeq(key, 1, 4) = "time" THEN TRUE
    ELSE HasTime(Tail(key))

\* dict_filter (structures.py, lines 301-306) over problem_info.items()
dict_filter(problem_info) == SelectSeq(problem_info, LAMBDA pair : HasTime(pair[1]))

\* v / 10**6 of a timer in microseconds (a multiple of 100000 here)
Seconds(micros) == FloatValue(micros \div 1000000, (micros % 1000000) \div 100000)

\* sampleset.info as the hybrid sampler reports it: timers in microseconds
\* and the problem id
ProblemInfos ==
    {<<<<"qpu_access_time", 0>>, <<"charge_time", 5000000>>,
       <<"run_time", 5100000>>, <<"problem_id", 0>>>>,
     <<<<"run_time", 3200000>>, <<"problem_id", 1>>>>}

\* variant: the empty assignment is written when no sample is feasible
cqm_solution_file_always(found, save_solution, best_solution, keys, file) ==
    IF save_solution
    THEN [exists |-> TRUE, text |-> JsonDump(best_solution, IF found THEN keys ELSE <<>>)]
    ELSE file
\* lines 152-164: the file is written inside the feasible branch
cqm_solution_file(found, save_solution, best_solution, keys, file) ==
    IF found /\ save_solution
    THEN [exists |-> TRUE, text |-> JsonDump(best_solution, keys)]
    ELSE file

\* detailed_cqm_solver with its files (lines 122-184): sol is the first
\* feasible sample (EmptySolution: the feasible sample set is empty), its
\* energy the objective's value on it
detailed_cqm_solver(m, keys, sol, problem_info, save_solution, save_info, file, log) ==
    LET found == sol # EmptySolution
        best_solution == IF found THEN sol ELSE EmptySolution
        energy == IF found THEN FloatValue(SumTerms(m.objective, sol, 0), 0)
                  ELSE FloatValue(0, 0)
        timers == dict_filter(problem_info)
        new_dict == [k \in 1..Len(timers) |-> <<timers[k][1], Seconds(timers[k][2])>>]
                    \o <<<<"energy", energy>>>>
    IN [returned |-> best_solution,
        found |-> found,
        energy |-> energy,
        solution_file |-> cqm_solution_file(found, save_solution, best_solution, keys, file),
        solution_written |-> found /\ save_solution,
        info |-> IF save_info THEN <<new_dict>> ELSE <<>>,
        log_file |-> IF save_info THEN info_writer(log, new_dict) ELSE log]

(***************************************************************************)
(* The state machine.                                                      *)
(***************************************************************************)
\* no run statistics are written
NoLog ==
    /\ log_file = NoFile
    /\ log_calls = <<>>

\* no main script runs
NoModels == [vm |-> 0, path |-> 0, full |-> 0, next |-> 1]
NoLoop ==
    /\ script = "none"
    /\ iterations = 0
    /\ iteration = 0
    /\ models = NoModels
    /\ solve_log = <<>>
    /\ build_log = <<>>

Init ==
    /\ args \in Inputs
    /\ pc = "start"
    /\ tree = NoTree
    /\ raised = "none"
    /\ tree2 = NoTree
    /\ raised2 = "none"
    /\ vm_vars = NoVars
    /\ vm_solution = EmptySolution
    /\ path_vars = NoVars
    /\ path_reads = [vm |-> {}, server |-> {}]
    /\ path_raised = "none"
    /\ full_vars = NoVars
    /\ solution_file = NoFile
    /\ saved = FALSE
    /\ NoLog
    /\ NoLoop

\* proxytree = Proxytree(...): returns the tree or raises
Construct ==
    /\ pc = "start"
    /\ raised' = ConstructorRaises(args)
    /\ IF ConstructorRaises(args) = "none"
       THEN /\ \E d \in Draws(args) : tree' = Proxytree(args, d)
            /\ pc' = "tree"
       ELSE /\ tree' = NoTree
            /\ pc' = "failed"
    /\ UNCHANGED <<args, tree2, raised2, vm_vars, vm_solution, path_vars,
                   path_reads, path_raised, full_vars, file_vars, log_vars, loop_vars>>

\* a second construction with the same arguments (another run of the script)
Rerun ==
    /\ pc \in {"tree", "failed"}
    /\ raised2' = ConstructorRaises(args)
    /\ IF ConstructorRaises(args) = "none"
       THEN \E d \in Draws(args) : tree2' = Proxytree(args, d)
       ELSE tree2' = NoTree
    /\ pc' = "rerun"
    /\ UNCHANGED <<args, tree, raised, vm_vars, vm_solution, path_vars,
                   path_reads, path_raised, full_vars, file_vars, log_vars, loop_vars>>

\* vm_model(proxytree, vm_cqm)
VmModel ==
    /\ pc = "tree"
    /\ tree.DEPTH <= MaxModelDepth
    /\ LET m == vm_model(tree)
       IN /\ vm_vars' = [created |-> TRUE, server_status |-> m.server_status,
                         vm_status |-> m.vm_status, constraints |-> m.constraints,
                         objective |-> m.objective]
          /\ tree' = m.tree_after
    /\ pc' = "vm"
    /\ UNCHANGED <<args, raised, tree2, raised2, vm_solution, path_vars,
                   path_reads, path_raised, full_vars, file_vars, log_vars, loop_vars>>

\* detailed_cqm_solver(vm_cqm, "vm_model", depth): save_solution and
\* save_info are off by default, no file is written
SolveVm ==
    /\ pc = "vm"
    /\ vm_solution' \in Solutions(tree)
    /\ pc' = "solved"
    /\ UNCHANGED <<args, tree, raised, tree2, raised2, vm_vars, path_vars,
                   path_reads, path_raised, full_vars, file_vars, log_vars, loop_vars>>

\* path_model(proxytree, path_cqm, vm_solution = vm_cqm_solution): load is
\* off by default
PathModel ==
    /\ pc = "solved"
    /\ LET m == path_model(tree, vm_solution)
       IN /\ path_vars' = [created |-> TRUE, switch_status |-> m.switch_status,
                           flow_path |-> m.flow_path, on |-> m.on,
                           objective |-> m.objective,
                           constraints |-> m.constraints]
          /\ path_reads' = [vm |-> m.vm_reads, server |-> m.server_reads]
          /\ path_raised' = m.raised
          /\ tree' = m.tree_after
          /\ vm_solution' = m.vm_solution_after
    /\ pc' = "path"
    /\ UNCHANGED <<args, raised, tree2, raised2, vm_vars, full_vars, file_vars, log_vars, loop_vars>>

\* full_model(proxytree, full_cqm)
FullModel ==
    /\ pc = "path"
    /\ LET m == full_model(tree)
       IN /\ full_vars' = [created |-> TRUE, server_status |-> m.server_status,
                           vm_status |-> m.vm_status, switch_status |-> m.switch_status,
                           flow_path |-> m.flow_path, on |-> m.on,
                           constraints |-> m.constraints,
                           objective |-> m.objective]
          /\ tree' = m.tree_after
    /\ pc' = "full"
    /\ UNCHANGED <<args, raised, tree2, raised2, vm_vars, vm_solution,
                   path_vars, path_reads, path_raised, file_vars, log_vars, loop_vars>>

\* detailed_cqm_solver(vm_cqm, "vm_model", depth, save_solution = True): the
\* best feasible sample is written to the solution file; with no feasible
\* sample the file is left as it was
SolveVmSave ==
    /\ pc = "vm"
    /\ \E sol \in Solutions(tree) :
          /\ vm_solution' = sol
          /\ IF sol # EmptySolution
             THEN /\ solution_file' = [exists |-> TRUE,
                                       text |-> JsonDump(sol, SampleOrder(tree))]
                  /\ saved' = TRUE
             ELSE /\ solution_file' = solution_file
                  /\ saved' = FALSE
    /\ pc' = "solved"
    /\ UNCHANGED <<args, tree, raised, tree2, raised2, vm_vars, path_vars,
                   path_reads, path_raised, full_vars, log_vars, loop_vars>>

\* path_model(proxytree, path_cqm, vm_solution = vm_cqm_solution, load = True)
PathModelLoad ==
    /\ pc = "solved"
    /\ LET m == path_model_load(tree, vm_solution, solution_file)
       IN /\ path_vars' = [created |-> TRUE, switch_status |-> m.switch_status,
                           flow_path |-> m.flow_path, on |-> m.on,
                           objective |-> m.objective,
                           constraints |-> m.constraints]
          /\ path_reads' = [vm |-> m.vm_reads, server |-> m.server_reads]
          /\ path_raised' = m.raised
          /\ tree' = m.tree_after
          /\ vm_solution' = m.vm_solution_after
    /\ pc' = "path"
    /\ UNCHANGED <<args, raised, tree2, raised2, vm_vars, full_vars, file_vars, log_vars, loop_vars>>

\* one run of the main script
Next == Construct \/ VmModel \/ SolveVm \/ PathModel \/ FullModel

Spec == Init /\ [][Next]_vars

\* two runs of the constructor on the same arguments
NextRerun == Construct \/ Rerun

SpecRerun == Init /\ [][NextRerun]_vars

\* the run with the handoff through the solution file: the solve saves its
\* assignment and the path model loads it; the file of an earlier run may
\* be there at the start
InitHandoff ==
    /\ args \in Inputs
    /\ pc = "start"
    /\ tree = NoTree
    /\ raised = "none"
    /\ tree2 = NoTree
    /\ raised2 = "none"
    /\ vm_vars = NoVars
    /\ vm_solution = EmptySolution
    /\ path_vars = NoVars
    /\ path_reads = [vm |-> {}, server |-> {}]
    /\ path_raised = "none"
    /\ full_vars = NoVars
    /\ solution_file \in {NoFile, StaleFile, CorruptFile}
    /\ saved = FALSE
    /\ NoLog
    /\ NoLoop
NextHandoff == Construct \/ VmModel \/ SolveVmSave \/ PathModelLoad
SpecHandoff == InitHandoff /\ [][NextHandoff]_vars

\* the run statistics of one label: info_writer is called once per solve,
\* on a path that is absent or left by an earlier run
MaxCalls == 3
InfoWriter ==
    /\ Len(log_calls) < MaxCalls
    /\ \E d \in LogDicts :
          /\ log_file' = info_writer(log_file, d)
          /\ log_calls' = Append(log_calls, [dictionary |-> d, existed |-> log_file.exists])
    /\ UNCHANGED <<args, pc, tree, raised, tree2, raised2, vm_vars, vm_solution,
                   path_vars, path_reads, path_raised, full_vars, file_vars, loop_vars>>
InitLog ==
    /\ args = WithBase(MainBase, 2, FALSE)
    /\ pc = "start"
    /\ tree = NoTree
    /\ raised = "none"
    /\ tree2 = NoTree
    /\ raised2 = "none"
    /\ vm_vars = NoVars
    /\ vm_solution = EmptySolution
    /\ path_vars = NoVars
    /\ path_reads = [vm |-> {}, server |-> {}]
    /\ path_raised = "none"
    /\ full_vars = NoVars
    /\ solution_file = NoFile
    /\ saved = FALSE
    /\ log_file \in {NoFile, OldLog}
    /\ log_calls = <<>>
    /\ NoLoop
NextLog == InfoWriter
SpecLog == InitLog /\ [][NextLog]_vars

\* The loops of the main scripts.  ITERATIONS and depth are the constants a
\* user of the script sets; the tree is the one of the scripts' arguments.
MaxIterations == 2
MaxLoopDepth == 1

\* a fresh model object: CpoModel() or dimod.ConstrainedQuadraticModel()
NewModel(kind) == [models EXCEPT ![kind] = models.next, !.next = models.next + 1]

\* vm_model = CpoModel(); vm_cplex_model(vm_model, proxytree)
\* vm_cqm = dimod.ConstrainedQuadraticModel(); vm_model(proxytree, vm_cqm)
MainVmModel ==
    /\ pc = "tree"
    /\ script # "none"
    /\ vm_vars' = IF script = "IBM" THEN vm_cplex_model(tree)
                  ELSE LET m == vm_model(tree)
                       IN [created |-> TRUE, server_status |-> m.server_status,
                           vm_status |-> m.vm_status, constraints |-> m.constraints,
                           objective |-> m.objective]
    /\ models' = NewModel("vm")
    /\ iteration' = 0
    /\ pc' = "loop_vm"
    /\ UNCHANGED <<args, tree, raised, tree2, raised2, vm_solution, path_vars,
                   path_reads, path_raised, full_vars, file_vars, log_vars,
                   script, iterations, solve_log, build_log>>

\* vm_solution = cplex_solver(model = vm_model, ...) in main_IBM.py;
\* in main_DWAVE.py the call cqm_solver(vm_cqm, "vm_model", proxytree.DEPTH,
\* save_solution = ..., save_info = ...) does not fit cqm_solver(cqm_problem,
\* problem_label, save = False) and raises TypeError before anything is solved
MainSolveVm ==
    /\ pc = "loop_vm"
    /\ IF script = "IBM"
       THEN \E sol \in CplexSolutions(tree) :
               \E out \in CplexOutcomes(sol # EmptySolution) :
                  LET call == cplex_solver(models.vm, "vm_model", iteration,
                                           sol # EmptySolution, sol)
                      files == cplex_solver_call(vm_vars, SampleOrder(tree), sol, out,
                                                 SAVE, solution_file, log_file)
                  IN /\ vm_solution' = bind_vm_solution(vm_solution, call.returned)
                     /\ solve_log' = Append(solve_log, call)
                     /\ solution_file' = files.solution_file
                     /\ saved' = files.solution_written
                     /\ log_file' = files.log_file
                     /\ log_calls' = log_calls \o
                                       [k \in 1..Len(files.info) |->
                                           [dictionary |-> files.info[k],
                                            existed |-> log_file.exists]]
                     /\ pc' = "loop_path"
                     /\ raised' = raised
       ELSE /\ raised' = "TypeError"
            /\ pc' = "failed"
            /\ UNCHANGED <<vm_solution, solve_log, file_vars, log_vars>>
    /\ UNCHANGED <<args, tree, tree2, raised2, vm_vars, path_vars,
                   path_reads, path_raised, full_vars,
                   script, iterations, iteration, models, build_log>>

\* path_model = CpoModel(); path_cplex_model(path_model, proxytree, vm_solution):
\* a lookup in an empty assignment raises TypeError and ends the script
MainPathModel ==
    /\ pc = "loop_path"
    /\ LET m == path_cplex_model(tree, vm_solution)
           fresh == NewModel("path")
       IN /\ path_vars' = [created |-> TRUE, switch_status |-> m.switch_status,
                           flow_path |-> m.flow_path, on |-> m.on,
                           objective |-> m.objective,
                           constraints |-> m.constraints]
          /\ path_reads' = [vm |-> m.vm_reads, server |-> m.server_reads]
          /\ path_raised' = m.raised
          /\ models' = fresh
          /\ build_log' = Append(build_log,
                                 [model |-> fresh.path,
                                  iteration |-> iteration,
                                  assignment |-> vm_solution,
                                  solves |-> Len(solve_log)])
          /\ IF m.raised = "none"
             THEN pc' = "loop_path_solve" /\ raised' = raised
             ELSE pc' = "failed" /\ raised' = m.raised
    /\ UNCHANGED <<args, tree, tree2, raised2, vm_vars, vm_solution, full_vars,
                   file_vars, log_vars, script, iterations, iteration, solve_log>>

\* path_solution = cplex_solver(model = path_model, ...), the end of one pass
MainSolvePath ==
    /\ pc = "loop_path_solve"
    /\ \E sol \in {EmptySolution} \cup CplexResults(tree, path_vars, {vm_solution}) :
          solve_log' = Append(solve_log,
                              cplex_solver(models.path, "path_model", iteration,
                                           sol # EmptySolution, sol))
    /\ iteration' = iteration + 1
    /\ pc' = IF iteration + 1 < iterations THEN "loop_vm" ELSE "split_done"
    /\ UNCHANGED <<args, tree, raised, tree2, raised2, vm_vars, vm_solution,
                   path_vars, path_reads, path_raised, full_vars, file_vars,
                   log_vars, script, iterations, models, build_log>>

\* full_model = CpoModel(); full_cplex_model(full_model, proxytree)
MainFullModel ==
    /\ pc = "split_done"
    /\ full_vars' = full_cplex_model(tree)
    /\ models' = NewModel("full")
    /\ iteration' = 0
    /\ pc' = "loop_full"
    /\ UNCHANGED <<args, tree, raised, tree2, raised2, vm_vars, vm_solution,
                   path_vars, path_reads, path_raised, file_vars, log_vars,
                   script, iterations, solve_log, build_log>>

\* full_solution = cplex_solver(model = full_model, ...), one pass of the
\* second loop; the placements the solution is drawn from are the rotations
\* with every server on
MainSolveFull ==
    /\ pc = "loop_full"
    /\ \E sol \in {EmptySolution}
                    \cup CplexResults(tree, full_vars,
                                       {RotationPlacement(tree, k) :
                                           k \in 0..(tree.SERVERS - 1)}) :
          solve_log' = Append(solve_log,
                              cplex_solver(models.full, "full_model", iteration,
                                           sol # EmptySolution, sol))
    /\ iteration' = iteration + 1
    /\ pc' = IF iteration + 1 < iterations THEN "loop_full" ELSE "done"
    /\ UNCHANGED <<args, tree, raised, tree2, raised2, vm_vars, vm_solution,
                   path_vars, path_reads, path_raised, full_vars, file_vars,
                   log_vars, script, iterations, models, build_log>>

InitLoop ==
    /\ args \in {WithBase(MainBase, depth, FALSE) : depth \in 1..MaxLoopDepth}
    /\ pc = "start"
    /\ tree = NoTree
    /\ raised = "none"
    /\ tree2 = NoTree
    /\ raised2 = "none"
    /\ vm_vars = NoVars
    /\ vm_solution = EmptySolution
    /\ path_vars = NoVars
    /\ path_reads = [vm |-> {}, server |-> {}]
    /\ path_raised = "none"
    /\ full_vars = NoVars
    /\ solution_file = NoFile
    /\ saved = FALSE
    /\ NoLog
    /\ script \in {"IBM", "DWAVE"}
    \* every level of depth beyond the first is run with one pass fewer: the
    \* number of solve histories grows with both
    /\ iterations \in 1..(MaxIterations + 1 - args.depth)
    /\ iteration = 0
    /\ models = NoModels
    /\ solve_log = <<>>
    /\ build_log = <<>>

NextLoop ==
    \/ Construct
    \/ MainVmModel
    \/ MainSolveVm
    \/ MainPathModel
    \/ MainSolvePath
    \/ MainFullModel
    \/ MainSolveFull
SpecLoop == InitLoop /\ [][NextLoop]_vars

\* One call of a solver adapter on the placement model, with the solution
\* and statistics files an earlier run may have left.
InitSolve ==
    /\ args \in {WithBase(MainBase, depth, FALSE) : depth \in 1..MaxLoopDepth}
                \cup {WithBase(SmallBase, 1, FALSE)}
    /\ pc = "start"
    /\ tree = NoTree
    /\ raised = "none"
    /\ tree2 = NoTree
    /\ raised2 = "none"
    /\ vm_vars = NoVars
    /\ vm_solution = EmptySolution
    /\ path_vars = NoVars
    /\ path_reads = [vm |-> {}, server |-> {}]
    /\ path_raised = "none"
    /\ full_vars = NoVars
    /\ solution_file \in {NoFile, StaleFile}
    /\ saved = FALSE
    /\ log_file \in {NoFile, OldLog}
    /\ log_calls = <<>>
    /\ script \in {"IBM", "DWAVE"}
    /\ iterations = 1
    /\ iteration = 0
    /\ models = NoModels
    /\ solve_log = <<>>
    /\ build_log = <<>>

\* the call's effects on the state
AdapterCall(call, save_solution, save_info) ==
    /\ vm_solution' = call.returned
    /\ solution_file' = call.solution_file
    /\ saved' = call.solution_written
    /\ log_file' = call.log_file
    /\ log_calls' = log_calls \o [k \in 1..Len(call.info) |->
                                     [dictionary |-> call.info[k], existed |-> log_file.exists]]
    /\ solve_log' = Append(solve_log,
                           [script |-> script, found |-> call.found,
                            returned |-> call.returned, energy |-> call.energy,
                            save_solution |-> save_solution, save_info |-> save_info,
                            file_before |-> solution_file, file_after |-> call.solution_file])
    /\ pc' = "solved"
    /\ UNCHANGED <<args, tree, raised, tree2, raised2, vm_vars, path_vars,
                   path_reads, path_raised, full_vars,
                   script, iterations, iteration, models, build_log>>

\* cplex_solver(model = vm_model, ..., save_solution = ...)
CplexSolve ==
    /\ pc = "loop_vm"
    /\ script = "IBM"
    /\ \E sol \in CplexSolutions(tree), save_solution \in BOOLEAN :
          \E out \in CplexOutcomes(sol # EmptySolution) :
              AdapterCall(cplex_solver_call(vm_vars, SampleOrder(tree), sol, out,
                                            save_solution, solution_file, log_file),
                          save_solution, TRUE)

\* detailed_cqm_solver(vm_cqm, "vm_model", depth, save_solution = ...,
\* save_info = ...)
CqmSolve ==
    /\ pc = "loop_vm"
    /\ script = "DWAVE"
    /\ \E sol \in Solutions(tree), problem_info \in ProblemInfos,
          save_solution \in BOOLEAN, save_info \in BOOLEAN :
              AdapterCall(detailed_cqm_solver(vm_vars, SampleOrder(tree), sol, problem_info,
                                              save_solution, save_info,
                                              solution_file, log_file),
                          save_solution, save_info)

NextSolve == Construct \/ MainVmModel \/ CplexSolve \/ CqmSolve
SpecSolve == InitSolve /\ [][NextSolve]_vars

(***************************************************************************)
(* Properties of the constructed topology.                                 *)
(***************************************************************************)
Adj(t, a, b) == At(At(t.adjancy_list, a), b)
NodeIds(t) == 0..(t.NODES - 1)
SwitchIds(t) == 0..(t.SWITCHES - 1)
ServerIds(t) == t.SWITCHES..(t.NODES - 1)
\* the level of switch n: level l holds the ids 2^l - 1 .. 2^(l+1) - 2
Level(t, n) == CHOOSE l \in 0..(t.DEPTH - 1) : 2 ^ l - 1 <= n /\ n < 2 ^ (l + 1) - 1
AdjacentOrdered(t) == {p \in NodeIds(t) \X NodeIds(t) : Adj(t, p[1], p[2]) = 1}
AdjacentUnordered(t) == {{p[1], p[2]} : p \in AdjacentOrdered(t)}
\* sum over l in lo..hi of 2^l * 2^(l+1)
RECURSIVE SumLevelProducts(_, _)
SumLevelProducts(lo, hi) ==
    IF lo > hi THEN 0 ELSE (2 ^ lo) * (2 ^ (lo + 1)) + SumLevelProducts(lo + 1, hi)
\* sum over l in 0..depth-2 of 2^l * 2^(l+1), plus 2 * 2^(depth-1)
ClosedLinks(depth) == SumLevelProducts(0, depth - 2) + 2 * (2 ^ (depth - 1))

\* C1: for every depth >= 1 the construction returns a tree, and the tree
\* has SERVERS = 2^depth, SWITCHES = 2^depth - 1, VMS = SERVERS,
\* FLOWS = VMS/2 exactly, NODES = SERVERS + SWITCHES.
C1_Counts ==
    (pc = "tree") =>
        /\ args.depth >= 1
        /\ tree.DEPTH = args.depth
        /\ tree.SERVERS = 2 ^ args.depth
        /\ tree.SWITCHES = 2 ^ args.depth - 1
        /\ tree.VMS = tree.SERVERS
        /\ 2 * tree.FLOWS = tree.VMS
        /\ tree.NODES = tree.SERVERS + tree.SWITCHES
C1_Witness == pc = "tree" /\ tree.DEPTH = 3 /\ tree.SWITCHES = 7 /\ tree.FLOWS = 4

\* C2: the adjacency matrix is a square 0/1 matrix over the nodes,
\* symmetric with a zero diagonal, and its number of unordered adjacent
\* pairs is LINKS, which is the closed formula; depth 1 gives 2 links with
\* switch 0 adjacent to both servers, depth 2 gives 6 links.
C2_Adjacency ==
    (pc = "tree") =>
        /\ Len(tree.adjancy_list) = tree.NODES
        /\ \A a \in NodeIds(tree) : Len(At(tree.adjancy_list, a)) = tree.NODES
        /\ \A a, b \in NodeIds(tree) :
              /\ Adj(tree, a, b) \in {0, 1}
              /\ Adj(tree, a, b) = Adj(tree, b, a)
        /\ \A a \in NodeIds(tree) : Adj(tree, a, a) = 0
        /\ Cardinality(AdjacentUnordered(tree)) = tree.LINKS
        /\ tree.LINKS = ClosedLinks(tree.DEPTH)
        /\ tree.DEPTH = 1 =>
              tree.LINKS = 2 /\ Adj(tree, 0, 1) = 1 /\ Adj(tree, 0, 2) = 1
        /\ tree.DEPTH = 2 => tree.LINKS = 6
C2_Witness ==
    pc = "tree" /\ tree.DEPTH = 2 /\ tree.LINKS = 6 /\ Adj(tree, 2, 6) = 1

\* C3: link_dict has an entry for (a, b) iff a and b are adjacent, both
\* orderings of a pair map to the same id, different unordered pairs map
\* to different ids, and the ids are exactly [0, LINKS).
C3_LinkDict ==
    (pc = "tree") =>
        LET d == tree.link_dict
            id == [p \in AdjacentOrdered(tree) |-> DictGet(d, StrPair(p[1], p[2]))]
        IN /\ \A i, j \in 1..Len(d) : d[i][1] = d[j][1] => i = j
           /\ DictKeys(d) = {StrPair(p[1], p[2]) : p \in AdjacentOrdered(tree)}
           /\ \A a, b \in NodeIds(tree) :
                 DictHas(d, StrPair(a, b)) <=> Adj(tree, a, b) = 1
           /\ \A p \in AdjacentOrdered(tree) : id[p] = id[<<p[2], p[1]>>]
           /\ \A p, q \in AdjacentOrdered(tree) :
                 id[p] = id[q] => {p[1], p[2]} = {q[1], q[2]}
           /\ DictValues(d) = 0..(tree.LINKS - 1)
C3_Witness ==
    /\ pc = "tree" /\ tree.DEPTH = 3
    /\ DictGet(tree.link_dict, "(6, 14)") = 17
    /\ DictGet(tree.link_dict, "(14, 6)") = 17

\* C4: two switches are adjacent exactly when their levels are consecutive;
\* a switch and a server are adjacent only when the switch is at the last
\* level; two servers are never adjacent; every last-level switch has
\* exactly two servers and every server exactly one neighbour.
C4_Levels ==
    (pc = "tree") =>
        /\ \A a, b \in SwitchIds(tree) :
              Adj(tree, a, b) = 1 <=>
                  (Level(tree, a) - Level(tree, b) \in {1, 0 - 1})
        /\ \A a \in SwitchIds(tree), b \in ServerIds(tree) :
              (Adj(tree, a, b) = 1 \/ Adj(tree, b, a) = 1) =>
                  Level(tree, a) = tree.DEPTH - 1
        /\ \A a, b \in ServerIds(tree) : Adj(tree, a, b) = 0
        /\ \A a \in SwitchIds(tree) :
              Level(tree, a) = tree.DEPTH - 1 =>
                  Cardinality({b \in ServerIds(tree) : Adj(tree, a, b) = 1}) = 2
        /\ \A b \in ServerIds(tree) :
              Cardinality({a \in NodeIds(tree) : Adj(tree, b, a) = 1}) = 1
C4_Witness ==
    /\ pc = "tree" /\ tree.DEPTH = 3
    /\ Adj(tree, 1, 3) = 1 /\ Adj(tree, 2, 3) = 1 /\ Adj(tree, 0, 3) = 0
    /\ Adj(tree, 3, 7) = 1 /\ Adj(tree, 1, 7) = 0

\* C5: with or without randomization, src_dst has FLOWS pairs, every VM id
\* of [0, VMS) is at exactly one position of exactly one pair, and no pair
\* has the same VM twice.
C5_SrcDst ==
    (pc = "tree") =>
        /\ Len(tree.src_dst) = tree.FLOWS
        /\ \A i \in 1..tree.FLOWS :
              /\ Len(tree.src_dst[i]) = 2
              /\ tree.src_dst[i][1] # tree.src_dst[i][2]
              /\ tree.src_dst[i][1] \in 0..(tree.VMS - 1)
              /\ tree.src_dst[i][2] \in 0..(tree.VMS - 1)
        /\ \A vm \in 0..(tree.VMS - 1) :
              Cardinality({p \in (1..tree.FLOWS) \X (1..2) :
                              tree.src_dst[p[1]][p[2]] = vm}) = 1
C5_Witness ==
    /\ pc = "tree" /\ args.random_tree
    /\ tree.src_dst[1] = <<1, 0>>

(***************************************************************************)
(* Rejection of invalid arguments, signs of the arrays, reproducibility.   *)
(***************************************************************************)
InvalidArgs(a) ==
    a.depth < 1 \/ a.server_c < 0 \/ a.link_c < 0 \/ a.idle_pc < 0 \/ a.dyn_pc < 0
PositiveBases(a) ==
    a.server_c > 0 /\ a.link_c > 0 /\ a.idle_pc > 0 /\ a.dyn_pc > 0
AllNonNegative(list) == \A k \in 1..Len(list) : list[k] >= 0

\* C6: a construction with depth < 1 or with a negative capacity or power
\* input fails, and no tree is returned to the caller.
C6_InvalidRejected ==
    (pc # "start" /\ InvalidArgs(args)) => (raised # "none" /\ tree = NoTree)

\* C7: for every depth >= 1 and positive base values, every entry of
\* server_capacity, link_capacity, idle_powcons and dyn_powcons of the
\* constructed tree is non-negative.
C7_NonNegative ==
    (pc = "tree" /\ PositiveBases(args)) =>
        /\ AllNonNegative(tree.server_capacity)
        /\ AllNonNegative(tree.link_capacity)
        /\ AllNonNegative(tree.idle_powcons)
        /\ AllNonNegative(tree.dyn_powcons)

\* C8: two constructions with the same arguments, the randomization flag
\* off or on, end the same way and return trees with identical counts,
\* adjacency, link_dict, capacities, power arrays, cpu_util, data_rate and
\* src_dst.
C8_Pure ==
    (pc = "rerun") => (raised2 = raised /\ tree2 = tree)

(***************************************************************************)
(* The variables of the builders.                                          *)
(***************************************************************************)
\* C9: every key path_model reads from the placement assignment is the
\* name of a variable vm_model created: a vm key is the name of
\* vm_status[s][vm] for the VM vm = src_dst[f][j] in [0, VMS) and the
\* server s in [0, SERVERS) it asks about, VM index first and server index
\* second; a server key is the name of server_status[s].
C9_NameHandoff ==
    (pc \in {"path", "full"}) =>
        /\ \A r \in path_reads.vm :
              /\ r.vm \in 0..(tree.VMS - 1)
              /\ r.s \in 0..(tree.SERVERS - 1)
              /\ r.key \in VmModelNames(vm_vars)
              /\ r.key = At(At(vm_vars.vm_status, r.s), r.vm)
              /\ r.key = "vm" \o ToString(r.vm) \o "-s" \o ToString(r.s)
        /\ \A r \in path_reads.server :
              /\ r.s \in 0..(tree.SERVERS - 1)
              /\ r.key \in VmModelNames(vm_vars)
              /\ r.key = At(vm_vars.server_status, r.s)
        /\ Cardinality({r.key : r \in path_reads.vm}) = tree.VMS * tree.SERVERS
        /\ path_raised = "none" =>
              {r.s : r \in path_reads.server} = 0..(tree.SERVERS - 1)
C9_Witness ==
    /\ pc = "path" /\ path_raised = "none" /\ tree.DEPTH = 2
    /\ [vm |-> 3, s |-> 1, key |-> "vm3-s1"] \in path_reads.vm
    /\ [s |-> 2, key |-> "s2"] \in path_reads.server

\* the names of the flow-edge variables of the adjacent ordered pairs
AdjacentFlowNames(t) ==
    {FlowName(f, p[1], p[2]) : f \in 0..(t.FLOWS - 1), p \in AdjacentOrdered(t)}
\* and of the ordered pairs that are not adjacent
OtherFlowNames(t) ==
    {FlowName(f, p[1], p[2]) :
        f \in 0..(t.FLOWS - 1), p \in (NodeIds(t) \X NodeIds(t)) \ AdjacentOrdered(t)}
\* the names of the link variables of the adjacent pairs with n1 < n2
AdjacentOnNames(t) ==
    {OnName(p[1], p[2]) : p \in {q \in AdjacentOrdered(t) : q[1] < q[2]}}
OtherOnNames(t) ==
    {OnName(p[1], p[2]) :
        p \in {q \in NodeIds(t) \X NodeIds(t) : ~(q[1] < q[2] /\ Adj(t, q[1], q[2]) = 1)}}
FlowEdgeAndLinkVariables(t, m) ==
    /\ DictKeys(m.flow_path) = AdjacentFlowNames(t)
    /\ DictKeys(m.flow_path) \cap OtherFlowNames(t) = {}
    /\ Len(m.flow_path) = t.FLOWS * 2 * t.LINKS
    /\ Cardinality(DictKeys(m.flow_path)) = t.FLOWS * 2 * t.LINKS
    /\ DictKeys(m.on) = AdjacentOnNames(t)
    /\ DictKeys(m.on) \cap OtherOnNames(t) = {}
    /\ Len(m.on) = t.LINKS
    /\ Cardinality(DictKeys(m.on)) = t.LINKS

\* C10: in path_model and in full_model a variable f<f>-n<a>-n<b> exists
\* iff adjancy_list[a][b] = 1, FLOWS * 2 * LINKS of them, and a variable
\* on<n1>-<n2> exists iff n1 < n2 and adjancy_list[n1][n2] = 1, LINKS of
\* them.
C10_Variables ==
    (pc = "full") =>
        /\ FlowEdgeAndLinkVariables(tree, path_vars)
        /\ FlowEdgeAndLinkVariables(tree, full_vars)
C10_Witness ==
    /\ pc = "full" /\ tree.DEPTH = 2
    /\ DictHas(full_vars.flow_path, "f1-n2-n6") /\ DictHas(full_vars.flow_path, "f1-n6-n2")
    /\ ~DictHas(full_vars.flow_path, "f1-n0-n6")
    /\ DictHas(path_vars.on, "on2-6") /\ ~DictHas(path_vars.on, "on6-2")
    /\ Len(full_vars.on) = 6 /\ Len(path_vars.flow_path) = 24

(***************************************************************************)
(* The constraints of the builders.                                        *)
(***************************************************************************)
\* the sum of cpu_util over the VMs 0..vm-1 that assignment a puts on server s
RECURSIVE LoadBelow(_, _, _, _)
LoadBelow(t, a, s, vm) ==
    IF vm = 0 THEN 0
    ELSE LoadBelow(t, a, s, vm - 1)
         + (IF a["vm" \o ToString(vm - 1) \o "-s" \o ToString(s)] = 1
            THEN At(t.cpu_util, vm - 1) ELSE 0)
LoadOn(t, a, s) == LoadBelow(t, a, s, t.VMS)
HostsOf(t, a, vm) ==
    {s \in 0..(t.SERVERS - 1) : a["vm" \o ToString(vm) \o "-s" \o ToString(s)] = 1}
PlacementRespected(t, a) ==
    /\ \A s \in 0..(t.SERVERS - 1) :
          IF a["s" \o ToString(s)] = 1
          THEN LoadOn(t, a, s) <= At(t.server_capacity, s)
          ELSE LoadOn(t, a, s) = 0
    /\ \A vm \in 0..(t.VMS - 1) : Cardinality(HostsOf(t, a, vm)) = 1

\* C11: every 0/1 assignment that satisfies all constraints of vm_model
\* (and of vm_cplex_model) has, on every server, the sum of cpu_util of the
\* VMs placed on it <= server_capacity when the server is on and = 0 when
\* it is off, and has every VM on exactly one server.
C11_PlacementFeasible ==
    (pc = "vm") =>
        \A a \in Samples(tree) :
            (Feasible(vm_vars.constraints, a) \/ Feasible(vm_cplex_constraints(tree), a))
                => PlacementRespected(tree, a)
C11_Witness ==
    /\ pc = "solved" /\ tree.DEPTH = 2 /\ tree.server_capacity = <<10, 10, 10, 10>>
    /\ vm_solution = RotationPlacement(tree, 1)
    /\ Feasible(vm_vars.constraints, vm_solution)
    /\ LoadOn(tree, vm_solution, 2) = 6
    /\ \E a \in Samples(tree) : ~Feasible(vm_vars.constraints, a)

Generated(constraints, c, n) ==
    \E k \in 1..Len(constraints) : constraints[k].label = ConstraintLabel(c, n)
TheConstraint(constraints, c, n) ==
    constraints[CHOOSE k \in 1..Len(constraints) : constraints[k].label = ConstraintLabel(c, n)]
\* the (flow, server node) pairs of the loops of C13, C14 and C15
FlowServerSet(t) == (0..(t.FLOWS - 1)) \X (t.SWITCHES..(t.NODES - 1))
PairNumber(t, p) == p[1] * t.SERVERS + p[2]
\* the key of the lookup for end j (0 source, 1 destination) of the flow of p
PairKey(t, p, j) ==
    "vm" \o ToString(At(At(t.src_dst, p[1]), j)) \o "-s" \o ToString(p[2] - t.SWITCHES)

\* C12 as stated: C13 (resp. C14) of path_model is generated only for the
\* (flow, server) pairs whose looked-up value for the source (resp.
\* destination) VM is non-zero, and not when that value is 0.
C12_SkippedWhenZero ==
    (pc \in {"path", "full"}) =>
        \A p \in FlowServerSet(tree) : \A j \in {0, 1} :
            Generated(path_vars.constraints, 13 + j, PairNumber(tree, p))
                => (~Missing(vm_solution, PairKey(tree, p, j))
                    /\ vm_solution[PairKey(tree, p, j)] # 0)

\* C12 as the code has it: C13 (resp. C14) of path_model is generated
\* exactly for the (flow, server) pairs whose looked-up value for the source
\* (resp. destination) VM is present and equal to 0, as "the flow variables
\* leaving (resp. entering) the server sum to 0"; it is not generated when
\* the value is non-zero or the key is missing.
C12_GeneratedWhenZero ==
    (pc \in {"path", "full"}) =>
        \A p \in FlowServerSet(tree) : \A j \in {0, 1} :
            LET zero == ~Missing(vm_solution, PairKey(tree, p, j))
                        /\ vm_solution[PairKey(tree, p, j)] = 0
                n == PairNumber(tree, p)
            IN /\ Generated(path_vars.constraints, 13 + j, n) <=> zero
               /\ zero =>
                     LET c == TheConstraint(path_vars.constraints, 13 + j, n)
                     IN /\ c.sense = "==" /\ c.rhs = 0 /\ c.const = 0
                        /\ \A k \in 1..Len(c.terms) : c.terms[k][1] = 1
                        /\ {c.terms[k][2] : k \in 1..Len(c.terms)} =
                              {IF j = 0 THEN "f" \o ToString(p[1]) \o "-n" \o ToString(p[2])
                                                 \o "-n" \o ToString(sw)
                               ELSE "f" \o ToString(p[1]) \o "-n" \o ToString(sw)
                                        \o "-n" \o ToString(p[2]) :
                                  sw \in {x \in SwitchIds(tree) : Adj(tree, p[2], x) = 1}}
C12_Witness ==
    /\ pc = "path" /\ path_raised = "none" /\ tree.DEPTH = 2
    /\ tree.src_dst[1] = <<0, 1>>
    /\ vm_solution["vm0-s1"] = 1 /\ vm_solution["vm0-s0"] = 0
    /\ Generated(path_vars.constraints, 13, 3)
    /\ ~Generated(path_vars.constraints, 13, 4)
    /\ TheConstraint(path_vars.constraints, 13, 3).terms = << <<1, "f0-n3-n1">> >>

\* C13: building the path model from an assignment in which looked-up keys
\* are missing (the empty assignment of an infeasible placement solve)
\* never raises.
C13_MissingNeverRaises ==
    (pc \in {"path", "full"}
        /\ \E r \in path_reads.vm \cup path_reads.server : Missing(vm_solution, r.key))
    => path_raised = "none"

\* C14: C19 of link l with second node n2: when n2 is a switch, path_model
\* and full_model both add  on - switch_status[n2] <= 0;  when n2 is a
\* server, path_model adds the equality  on - (value of s<n2 - SWITCHES> in
\* the assignment) == 0  and full_model adds the inequality
\* on - server_status[n2 - SWITCHES] <= 0  on the variable.
C14_LinkOnSecondNode ==
    (pc = "full" /\ path_raised = "none") =>
        LET links == LinkNodes(tree) IN
        \A l \in 0..(tree.LINKS - 1) :
            LET nn == links[l + 1]
                onvar == "on" \o ToString(nn[1]) \o "-" \o ToString(nn[2])
                inpath == TheConstraint(path_vars.constraints, 19, l)
                infull == TheConstraint(full_vars.constraints, 19, l)
            IN /\ Generated(path_vars.constraints, 19, l)
               /\ Generated(full_vars.constraints, 19, l)
               /\ IF nn[2] < tree.SWITCHES
                  THEN /\ inpath = infull
                       /\ infull.terms = << <<1, onvar>>, <<0 - 1, "sw" \o ToString(nn[2])>> >>
                       /\ infull.const = 0 /\ infull.sense = "<=" /\ infull.rhs = 0
                  ELSE /\ inpath.terms = << <<1, onvar>> >>
                       /\ inpath.const = 0 - vm_solution["s" \o ToString(nn[2] - tree.SWITCHES)]
                       /\ inpath.sense = "==" /\ inpath.rhs = 0
                       /\ infull.terms =
                             << <<1, onvar>>, <<0 - 1, "s" \o ToString(nn[2] - tree.SWITCHES)>> >>
                       /\ infull.const = 0 /\ infull.sense = "<=" /\ infull.rhs = 0
C14_Witness ==
    /\ pc = "full" /\ path_raised = "none" /\ tree.DEPTH = 2
    /\ vm_solution["s0"] = 1
    /\ TheConstraint(path_vars.constraints, 19, 2) =
          [label |-> "C19-N2", terms |-> << <<1, "on1-3">> >>, const |-> 0 - 1,
           sense |-> "==", rhs |-> 0]
    /\ TheConstraint(full_vars.constraints, 19, 2) =
          [label |-> "C19-N2", terms |-> << <<1, "on1-3">>, <<0 - 1, "s0">> >>, const |-> 0,
           sense |-> "<=", rhs |-> 0]
    /\ TheConstraint(path_vars.constraints, 19, 0).terms = << <<1, "on0-1">>, <<0 - 1, "sw1">> >>

\* the sum of coef * sol[name] over the terms whose variable sol assigns
RECURSIVE PinnedSum(_, _, _)
PinnedSum(terms, sol, acc) ==
    IF terms = <<>> THEN acc
    ELSE PinnedSum(Tail(terms), sol,
                   IF Head(terms)[2] \in DOMAIN sol
                   THEN acc + Head(terms)[1] * sol[Head(terms)[2]] ELSE acc)
\* the constraint with the variables sol assigns replaced by their values
Pinned(c, sol) ==
    [c EXCEPT !.terms = SelectSeq(c.terms, LAMBDA x : x[2] \notin DOMAIN sol),
              !.const = PinnedSum(c.terms, sol, c.const)]
\* a constraint up to the order of its terms
Unordered(c) ==
    [label |-> c.label, terms |-> {c.terms[k] : k \in 1..Len(c.terms)},
     const |-> c.const, sense |-> c.sense, rhs |-> c.rhs]
IsC13toC19(c) ==
    \E n \in 13..19 : SubSeq(c.label, 1, 4) = "C" \o ToString(n) \o "-"
ConstraintSet(constraints) ==
    {Unordered(constraints[k]) : k \in {j \in 1..Len(constraints) : IsC13toC19(constraints[j])}}
PinnedConstraintSet(constraints, sol) ==
    {Unordered(Pinned(constraints[k], sol)) :
        k \in {j \in 1..Len(constraints) : IsC13toC19(constraints[j])}}

\* C15: the set of constraints C13-C19 of the path model built from a
\* placement assignment is the set of constraints C13-C19 of the full
\* model with its vm_status / server_status variables replaced by the
\* values of that assignment.
C15_CrossConsistent ==
    (pc = "full" /\ path_raised = "none") =>
        ConstraintSet(path_vars.constraints)
            = PinnedConstraintSet(full_vars.constraints, vm_solution)

(***************************************************************************)
(* C16: round trip of the handoff.  Whenever the placement solve saved its *)
(* assignment to the solution file, the path model built with load on      *)
(* (the assignment re-read from the file) has the same variables, the same *)
(* objective and the same constraints, and ends the same way, as the path  *)
(* model built from the assignment in memory.                              *)
(***************************************************************************)
C16_HandoffRoundTrip ==
    (pc = "path" /\ saved) =>
        LET m == path_model(tree, vm_solution)
        IN /\ path_vars.switch_status = m.switch_status
           /\ path_vars.flow_path = m.flow_path
           /\ path_vars.on = m.on
           /\ path_vars.objective = m.objective
           /\ path_vars.constraints = m.constraints
           /\ path_raised = m.raised

\* a saved assignment of a tree with four servers was loaded and the path
\* model got its constraints from it
C16_Witness ==
    /\ pc = "path"
    /\ saved
    /\ tree.SERVERS = 4
    /\ solution_file.text = JsonDump(vm_solution, SampleOrder(tree))
    /\ JsonLoads(solution_file.text) = vm_solution
    /\ path_raised = "none"
    /\ Len(path_vars.constraints) > 0

(***************************************************************************)
(* C17: the run statistics.  After n >= 1 calls of info_writer on a path   *)
(* that did not exist before the first call, the file is one row of heads  *)
(* (the keys of the first call's dictionary) followed by n rows of values  *)
(* in the order of the calls: every call appends one row of values, the    *)
(* rows written earlier stay, and the heads are not written again.         *)
(***************************************************************************)
\* the rows of a text: the pieces that end at each "\n"
Rows(text) ==
    LET ends == {i \in 1..Len(text) : SubSeq(text, i, i) = "\n"}
        StartOf(e) == LET before == {i \in ends : i < e}
                      IN IF before = {} THEN 1
                         ELSE (CHOOSE i \in before : \A j \in before : j <= i) + 1
        Nth(k) == CHOOSE e \in ends : Cardinality({i \in ends : i <= e}) = k
    IN [k \in 1..Cardinality(ends) |-> SubSeq(text, StartOf(Nth(k)), Nth(k) - 1)]

C17_LogRows ==
    (Len(log_calls) >= 1 /\ ~log_calls[1].existed) =>
        LET n == Len(log_calls)
            rows == Rows(log_file.text)
            Dict(i) == log_calls[i].dictionary
        IN /\ log_file.exists
           /\ Len(rows) = n + 1
           /\ log_file.text = "" \/ SubSeq(log_file.text, Len(log_file.text), Len(log_file.text)) = "\n"
           /\ rows[1] = SubSeq(WriteKeys(Dict(1)), 1, Len(WriteKeys(Dict(1))) - 1)
           /\ \A i \in 1..n :
                 rows[i + 1] = SubSeq(WriteValues(Dict(i)), 1, Len(WriteValues(Dict(i))) - 1)

\* three calls on a new path, the second with other keys than the first
C17_Witness ==
    /\ Len(log_calls) = 3
    /\ ~log_calls[1].existed
    /\ Len(log_calls[1].dictionary) = 3
    /\ Len(log_calls[2].dictionary) = 4
    /\ Len(Rows(log_file.text)) = 4
    /\ Rows(log_file.text)[1] = "status\ttime\tenergy\t"
    /\ Rows(log_file.text)[3] = "0.0\t5.0\t5.1\t70.0\t"

(***************************************************************************)
(* C18: fresh models.  In the loops of the main scripts, for any number of *)
(* passes, no model object is handed to the solver more than once: any two *)
(* solver calls are made on different model objects.                       *)
(***************************************************************************)
C18_FreshModels ==
    \A i, j \in 1..Len(solve_log) :
        i # j => solve_log[i].model # solve_log[j].model

(***************************************************************************)
(* C19: in every pass of the split loop the path model is built only after *)
(* the placement solve of that pass has returned, and from the assignment  *)
(* that solve returned, not from the one of an earlier pass.               *)
(***************************************************************************)
\* the placement solves logged so far
VmSolves == SelectSeq(solve_log, LAMBDA call : call.label = "vm_model")

C19_PathAfterSolve ==
    \A b \in 1..Len(build_log) :
        LET build == build_log[b]
        IN /\ Len(VmSolves) >= build.iteration + 1
           /\ VmSolves[build.iteration + 1].iteration = build.iteration
           /\ build.solves >= 1
           /\ solve_log[build.solves].label = "vm_model"
           /\ solve_log[build.solves].iteration = build.iteration
           /\ build.assignment = solve_log[build.solves].returned

\* the second pass built its path model from an assignment that differs
\* from the one of the first pass
C19_Witness ==
    /\ Len(build_log) = 2
    /\ build_log[2].iteration = 1
    /\ build_log[2].assignment # build_log[1].assignment
    /\ build_log[2].assignment = VmSolves[2].returned
    /\ path_raised = "none"
    /\ Len(path_vars.constraints) > 0

(***************************************************************************)
(* C20: the builders read their arguments only.  Every step that builds    *)
(* the placement, the path or the full model leaves every field of the     *)
(* tree as it was (counts, adjacency, link_dict, capacities, power arrays, *)
(* cpu_util, data_rate, src_dst), and the step that builds the path model  *)
(* leaves the placement assignment passed to it as it was.                 *)
(***************************************************************************)
C20_BuildersFrame ==
    [][(pc' \in {"vm", "path", "full"} /\ pc' # pc) =>
          /\ tree' = tree
          /\ \A field \in DOMAIN tree : tree'[field] = tree[field]
          /\ (pc' = "path" => vm_solution' = vm_solution)]_vars

\* the three models were built, the path model from a placement, and the
\* tree is still the one the constructor returned
C20_Witness ==
    /\ pc = "full"
    /\ vm_vars.created /\ path_vars.created /\ full_vars.created
    /\ vm_solution # EmptySolution
    /\ path_raised = "none"
    /\ tree.DEPTH = 2
    /\ \E d \in Draws(args) : tree = Proxytree(args, d)

(***************************************************************************)
(* C21: a persisted placement assignment with a key that is no placement   *)
(* variable name, or with a value that is not 0 or 1, makes the load fail  *)
(* with a CorruptHandoff error: no path model is built from it.            *)
(***************************************************************************)
\* the assignment has a key that names no placement variable of the tree,
\* or a value other than 0 and 1
Corrupt(t, sol) ==
    \E key \in DOMAIN sol :
        \/ key \notin VmModelNames([server_status |-> server_status(t),
                                    vm_status |-> vm_status(t)])
        \/ sol[key] \notin {0, 1}

\* the path model was built with load on from the file an earlier run left
LoadedFromFile == pc = "path" /\ ~saved /\ solution_file.exists

C21_CorruptHandoff ==
    (LoadedFromFile /\ Corrupt(tree, JsonLoads(solution_file.text))) =>
        /\ path_raised = "CorruptHandoff"
        /\ path_vars.constraints = <<>>

(***************************************************************************)
(* C22: objective term 2.  In the placement and the joint objective of the *)
(* D-Wave and of the IBM builders, for every server s and VM v the         *)
(* coefficient of the variable named vm<v>-s<s> is                         *)
(* dyn_powcons[SWITCHES + s] * cpu_util[v], also for randomized trees      *)
(* whose VMs differ in cpu_util.                                           *)
(***************************************************************************)
\* the sum of the coefficients an objective gives to the variable name
RECURSIVE SumCoefficients(_, _, _)
SumCoefficients(terms, k, acc) ==
    IF k > Len(terms) THEN acc
    ELSE SumCoefficients(terms, k + 1, acc + terms[k][1])
Coefficient(objective, name) ==
    SumCoefficients(SelectSeq(objective, LAMBDA term : term[2] = name), 1, 0)

\* the objective gives every vm<v>-s<s> the coefficient of term 2
Term2(t, objective) ==
    \A srv \in 0..(t.SERVERS - 1), vm \in 0..(t.VMS - 1) :
        Coefficient(objective, VmName(vm, srv))
            = At(t.dyn_powcons, t.SWITCHES + srv) * At(t.cpu_util, vm)

C22_Term2Coefficients ==
    pc = "vm" =>
        /\ Term2(tree, vm_vars.objective)
        /\ Term2(tree, full_objective(tree))
        /\ Term2(tree, vm_cplex_objective(tree))
        /\ Term2(tree, full_cplex_objective(tree))

\* variant of the statement that holds: the D-Wave builders only
C22_Term2DWave ==
    pc = "vm" => Term2(tree, vm_vars.objective) /\ Term2(tree, full_objective(tree))

(***************************************************************************)
(* C23: the joint objective is the sum of the two stage objectives.  For   *)
(* every tree and every 0/1 assignment of the five variable families, the  *)
(* value of the full_model objective is the value of the vm_model          *)
(* objective on the server and VM part plus the value of the path_model    *)
(* objective on the switch and flow part; the vm_model objective names no  *)
(* switch, flow or link variable and the path_model objective names no     *)
(* server or VM variable.                                                  *)
(***************************************************************************)
\* the value of a linear expression under an assignment, summed by halves
RECURSIVE ValueOf(_, _, _, _)
ValueOf(terms, a, lo, hi) ==
    IF lo > hi THEN 0
    ELSE IF lo = hi THEN terms[lo][1] * a[terms[lo][2]]
    ELSE LET mid == (lo + hi) \div 2
         IN ValueOf(terms, a, lo, mid) + ValueOf(terms, a, mid + 1, hi)
Value(terms, a) == ValueOf(terms, a, 1, Len(terms))

\* the names an expression mentions
NamesIn(terms) == {terms[k][2] : k \in 1..Len(terms)}

\* the variables of the full model by family
PlacementNames(m) == VmModelNames(m)
SwitchNames(m) == {m.switch_status[k] : k \in 1..Len(m.switch_status)}
FlowNames(m) == DictValues(m.flow_path)
LinkNames(m) == DictValues(m.on)
AllNames(m) ==
    PlacementNames(m) \cup SwitchNames(m) \cup FlowNames(m) \cup LinkNames(m)

\* The assignments the values are compared on: none and all of the
\* variables set, and every assignment that sets exactly one variable
\* (a linear expression is fixed by its values on these).
TestAssignments(names) ==
    {[n \in names |-> 0], [n \in names |-> 1]}
    \cup {[n \in names |-> IF n = x THEN 1 ELSE 0] : x \in names}

\* the part of an assignment on some of its names
Restrict(a, names) == [n \in names |-> a[n]]

C23_JointObjectiveSplits ==
    (pc = "full") =>
        LET placement == PlacementNames(full_vars)
            routing == SwitchNames(full_vars) \cup FlowNames(full_vars)
        IN /\ NamesIn(vm_vars.objective) \subseteq placement
           /\ NamesIn(vm_vars.objective) \cap (routing \cup LinkNames(full_vars)) = {}
           /\ NamesIn(path_vars.objective) \subseteq routing
           /\ NamesIn(path_vars.objective) \cap placement = {}
           /\ \A a \in TestAssignments(AllNames(full_vars)) :
                 Value(full_vars.objective, a)
                     = Value(vm_vars.objective, Restrict(a, placement))
                       + Value(path_vars.objective, Restrict(a, routing))

\* the three objectives were built on a tree of depth 2 and the joint one
\* has terms of all four kinds with a positive value
C23_Witness ==
    /\ pc = "full"
    /\ tree.DEPTH = 2
    /\ Len(full_vars.objective) = Len(vm_vars.objective) + Len(path_vars.objective)
    /\ Len(vm_vars.objective) = tree.SERVERS + tree.SERVERS * tree.VMS
    /\ Len(path_vars.objective) > tree.SWITCHES
    /\ Value(full_vars.objective, [n \in AllNames(full_vars) |-> 1])
           > Value(vm_vars.objective, [n \in PlacementNames(full_vars) |-> 1])
    /\ Value(vm_vars.objective, [n \in PlacementNames(full_vars) |-> 1]) > 0

(***************************************************************************)
(* C24: the capacity and power gradient.  In every constructed tree the    *)
(* capacity of a link whose upper end is a switch of level l is            *)
(* link_c*depth - 2*l (for the server links l is depth - 1), the idle and  *)
(* dynamic power of a node of level l are idle_pc*depth - 5*l and          *)
(* dyn_pc*depth - l (for the servers l is depth), no value increases       *)
(* toward the leaves, and every server has the same capacity.              *)
(***************************************************************************)
\* the level of node n, the servers being level DEPTH
NodeLevel(t, n) == CHOOSE l \in 0..t.DEPTH : 2 ^ l - 1 <= n /\ n < 2 ^ (l + 1) - 1

C24_Gradient ==
    (pc \notin {"start", "failed"}) =>
        LET nodes == LinkNodes(tree)
            upper(l) == NodeLevel(tree, nodes[l][1])
        IN /\ \A l \in 1..tree.LINKS :
                 /\ nodes[l][2] < tree.SWITCHES =>
                        /\ NodeLevel(tree, nodes[l][2]) = upper(l) + 1
                        /\ tree.link_capacity[l] = args.link_c * args.depth - 2 * upper(l)
                 /\ nodes[l][2] >= tree.SWITCHES =>
                        tree.link_capacity[l] = args.link_c * args.depth - 2 * (args.depth - 1)
           /\ \A n \in NodeIds(tree) :
                 /\ n < tree.SWITCHES =>
                        /\ tree.idle_powcons[n + 1] = args.idle_pc * args.depth - 5 * NodeLevel(tree, n)
                        /\ tree.dyn_powcons[n + 1] = args.dyn_pc * args.depth - NodeLevel(tree, n)
                 /\ n >= tree.SWITCHES =>
                        /\ tree.idle_powcons[n + 1] = args.idle_pc * args.depth - 5 * args.depth
                        /\ tree.dyn_powcons[n + 1] = args.dyn_pc * args.depth - args.depth
           /\ \A l1, l2 \in 1..tree.LINKS :
                 upper(l1) <= upper(l2) => tree.link_capacity[l1] >= tree.link_capacity[l2]
           /\ \A n1, n2 \in NodeIds(tree) :
                 NodeLevel(tree, n1) <= NodeLevel(tree, n2) =>
                     /\ tree.idle_powcons[n1 + 1] >= tree.idle_powcons[n2 + 1]
                     /\ tree.dyn_powcons[n1 + 1] >= tree.dyn_powcons[n2 + 1]
           /\ \A n \in ServerIds(tree) :
                 /\ tree.idle_powcons[n + 1] <= tree.idle_powcons[1]
                 /\ \A m \in SwitchIds(tree) : tree.idle_powcons[n + 1] < tree.idle_powcons[m + 1]
           /\ \A s \in 1..tree.SERVERS : tree.server_capacity[s] = args.server_c

\* a tree of depth 3 with the values of the main scripts: links of three
\* capacities (15, 13, 11) and nodes of four power levels
C24_Witness ==
    /\ pc = "tree"
    /\ tree.DEPTH = 3
    /\ args.link_c = 5 /\ args.idle_pc = 10 /\ args.dyn_pc = 2
    /\ {tree.link_capacity[l] : l \in 1..tree.LINKS} = {15, 13, 11}
    /\ {tree.idle_powcons[n] : n \in 1..tree.NODES} = {30, 25, 20, 15}
    /\ {tree.dyn_powcons[n] : n \in 1..tree.NODES} = {6, 5, 4, 3}

(***************************************************************************)
(* C25: get_nodes returns the canonical pair of a link.  In every          *)
(* constructed tree and for every link id l in [0, LINKS), get_nodes(l,    *)
(* link_dict) is a pair (n1, n2) with link_dict[(n1, n2)] = l, n1 < n2 and *)
(* n1 a switch; so switch_status[n1] of C18 is in range and the variable   *)
(* on<n1>-<n2> of C17-C19 was created.                                     *)
(***************************************************************************)
C25_GetNodesCanonical ==
    (pc \notin {"start", "failed"}) =>
        \A l \in 0..(tree.LINKS - 1) :
            LET nn == get_nodes(l, tree.link_dict)
            IN /\ Len(nn) = 2
               /\ DictHas(tree.link_dict, StrPair(nn[1], nn[2]))
               /\ DictGet(tree.link_dict, StrPair(nn[1], nn[2])) = l
               /\ nn[1] < nn[2]
               /\ 0 <= nn[1] /\ nn[1] < tree.SWITCHES
               /\ nn[2] < tree.NODES
               /\ (nn[1] + 1) \in DOMAIN switch_status(tree)
               /\ DictHas(on(tree), OnName(nn[1], nn[2]))

\* a tree of depth 2: link 1 joins the root and switch 2, link 5 joins
\* switch 2 and server 6 (node ids of two digits occur from depth 3 on)
C25_Witness ==
    /\ pc = "tree"
    /\ tree.DEPTH = 2
    /\ get_nodes(1, tree.link_dict) = <<0, 2>>
    /\ get_nodes(5, tree.link_dict) = <<2, 6>>
    /\ DictGet(tree.link_dict, StrPair(6, 2)) = 5

(***************************************************************************)
(* C26: only created flow and link variables are referenced.  When         *)
(* path_model has been built from a complete placement, and when           *)
(* full_model has been built, every flow or link variable named by term 4  *)
(* of the objective or by a constraint C13 to C17 is a key of the          *)
(* flow_path or on dictionary of that model, and belongs to an adjacent    *)
(* pair of nodes.                                                          *)
(***************************************************************************)
\* the constraints (13) to (17) of a model
C13toC17(m) ==
    SelectSeq(m.constraints,
              LAMBDA c : SubSeq(c.label, 1, 4) \in {"C13-", "C14-", "C15-", "C16-", "C17-"})

\* the names the objective and the constraints (13) to (17) mention
Referenced(m) ==
    NamesIn(m.objective)
    \cup UNION {NamesIn(C13toC17(m)[k].terms) : k \in 1..Len(C13toC17(m))}

\* those that are neither server, VM nor switch variables
ReferencedFlowsAndLinks(m, others) == Referenced(m) \ others

C26_OnlyCreatedReferenced ==
    /\ (pc \in {"path", "full"} /\ path_raised = "none") =>
           LET used == ReferencedFlowsAndLinks(path_vars, SwitchNames(path_vars))
           IN /\ used \subseteq DictKeys(path_vars.flow_path) \cup DictKeys(path_vars.on)
              /\ used \subseteq AdjacentFlowNames(tree) \cup AdjacentOnNames(tree)
              /\ used \cap (OtherFlowNames(tree) \cup OtherOnNames(tree)) = {}
    /\ (pc = "full") =>
           LET used == ReferencedFlowsAndLinks(full_vars,
                           SwitchNames(full_vars) \cup PlacementNames(full_vars))
           IN /\ used \subseteq DictKeys(full_vars.flow_path) \cup DictKeys(full_vars.on)
              /\ used \subseteq AdjacentFlowNames(tree) \cup AdjacentOnNames(tree)
              /\ used \cap (OtherFlowNames(tree) \cup OtherOnNames(tree)) = {}

\* both models were built on a tree of depth 2 from a complete placement;
\* they mention the root's flow and link variables, and the root and
\* server 3 (not adjacent) have no flow variable
C26_Witness ==
    /\ pc = "full"
    /\ path_raised = "none"
    /\ tree.DEPTH = 2
    /\ Len(C13toC17(path_vars)) > tree.LINKS
    /\ {FlowName(0, 0, 1), FlowName(0, 1, 0), OnName(0, 1), FlowName(1, 6, 2)}
           \subseteq (Referenced(path_vars) \cap Referenced(full_vars))
    /\ ~DictHas(full_vars.flow_path, FlowName(0, 0, 3))
    /\ ~DictHas(path_vars.on, OnName(1, 0))

(***************************************************************************)
(* C27: the adapters on infeasibility.  When the solve gives no feasible   *)
(* solution, cplex_solver and detailed_cqm_solver return the empty         *)
(* assignment, report the objective 0 and leave the solution file as it    *)
(* was, also when saving was asked for.                                    *)
(***************************************************************************)
\* the solves that found nothing
Infeasible(k) == ~solve_log[k].found

\* the text the call prints and writes for the objective is a zero
ReportsZero(call) == Format(call.energy) \in {"0", "0.0"}

C27_InfeasibleAdapters ==
    \A k \in 1..Len(solve_log) :
        Infeasible(k) =>
            /\ solve_log[k].returned = EmptySolution
            /\ ReportsZero(solve_log[k])
            /\ solve_log[k].file_after = solve_log[k].file_before

\* what holds of both adapters: the empty assignment and the untouched
\* file; the objective 0 is reported by detailed_cqm_solver
C27_InfeasibleFrame ==
    \A k \in 1..Len(solve_log) :
        Infeasible(k) =>
            /\ solve_log[k].returned = EmptySolution
            /\ solve_log[k].file_after = solve_log[k].file_before
            /\ solution_file = solve_log[k].file_before
            /\ ~saved
            /\ solve_log[k].script = "DWAVE" => ReportsZero(solve_log[k])
            /\ solve_log[k].script = "IBM" => solve_log[k].energy = NoneValue

(***************************************************************************)
(* C28: one VM per server.  For every depth >= 1 and server_c >= 1, with   *)
(* or without random_tree, a tree is constructed in which every cpu_util   *)
(* value exceeds half the server capacity; hence every 0/1 assignment      *)
(* that satisfies the constraints (11) and (12) of vm_model places exactly *)
(* one VM on each server and has every server on, and the placement of    *)
(* VM i on server i satisfies them.                                        *)
(***************************************************************************)
MaxPlacementServers == 4   \* most servers for which every VM-to-server map is tried

\* every server on or one server off, every VM on the server a map gives it
MapPlacements(t) ==
    IF t.SERVERS > MaxPlacementServers THEN {}
    ELSE LET servers == 0..(t.SERVERS - 1)
         IN {AssignmentOf(t, on_servers, {<<vm, host[vm]>> : vm \in 0..(t.VMS - 1)}) :
                on_servers \in {servers} \cup {servers \ {s} : s \in servers},
                host \in [0..(t.VMS - 1) -> servers]}

VmsOn(t, a, s) == {vm \in 0..(t.VMS - 1) : a[VmName(vm, s)] = 1}

OnePerServer(t, a) ==
    \A s \in 0..(t.SERVERS - 1) :
        /\ Cardinality(VmsOn(t, a, s)) = 1
        /\ a[ServerName(s)] = 1

\* what holds of every constructed tree with server_c >= 1
C28_OnePerServerWhenBuilt ==
    (args.server_c >= 1 /\ pc \notin {"start", "failed"}) =>
        /\ \A vm \in 1..tree.VMS : 2 * tree.cpu_util[vm] > args.server_c
        /\ (pc = "vm") =>
              /\ \A a \in Samples(tree) \cup MapPlacements(tree) :
                    Feasible(vm_vars.constraints, a) => OnePerServer(tree, a)
              /\ Feasible(vm_vars.constraints, RotationPlacement(tree, 0))

\* C28 as stated: also, the tree exists for every such input
C28_OnePerServer ==
    (args.depth >= 1 /\ args.server_c >= 1 /\ pc # "start") =>
        /\ pc # "failed"
        /\ C28_OnePerServerWhenBuilt

(***************************************************************************)
(* C29: the two-stage result is admissible for the joint model.  For every *)
(* tree and every complete placement that satisfies (11) and (12), a       *)
(* routing assignment that satisfies the constraints of the path_model     *)
(* built from the placement gives, together with the placement, an         *)
(* assignment that satisfies every constraint of full_model, and the       *)
(* full_model objective on it is the vm_model objective plus the           *)
(* path_model objective.                                                   *)
(***************************************************************************)
\* the routing assignment: every switch and every link on, the flows routed
Routing(t, m, placement) ==
    [n \in SwitchNames(m) \cup FlowNames(m) \cup LinkNames(m) |->
        IF n \in FlowNames(m) THEN (IF n \in RoutedFlows(t, placement) THEN 1 ELSE 0)
        ELSE 1]

\* the placement and the routing as one assignment of the joint model
Combined(m, placement, routing) ==
    [n \in AllNames(m) |-> IF n \in DOMAIN placement THEN placement[n] ELSE routing[n]]

\* the two stages succeeded: a complete feasible placement and a routing
\* that satisfies the path model built from it
TwoStagesDone ==
    /\ pc = "full"
    /\ path_raised = "none"
    /\ vm_solution # EmptySolution
    /\ Feasible(vm_vars.constraints, vm_solution)
    /\ Feasible(path_vars.constraints, Routing(tree, path_vars, vm_solution))

C29_TwoStageAdmissible ==
    TwoStagesDone =>
        LET routing == Routing(tree, path_vars, vm_solution)
            joint == Combined(full_vars, vm_solution, routing)
        IN /\ Feasible(full_vars.constraints, joint)
           /\ Value(full_vars.objective, joint)
                  = Value(vm_vars.objective, vm_solution)
                    + Value(path_vars.objective, Restrict(routing,
                                SwitchNames(path_vars) \cup FlowNames(path_vars)))

\* what holds: the objective always splits, and the joint constraints are
\* satisfied when the placement is its own transpose (VM a on server b
\* exactly when VM b is on server a)
OwnTranspose(t, placement) ==
    \A a, b \in 0..(t.SERVERS - 1) : placement[VmName(a, b)] = placement[VmName(b, a)]
C29_AdmissibleWhenSymmetric ==
    TwoStagesDone =>
        LET routing == Routing(tree, path_vars, vm_solution)
            joint == Combined(full_vars, vm_solution, routing)
        IN /\ OwnTranspose(tree, vm_solution) => Feasible(full_vars.constraints, joint)
           /\ Value(full_vars.objective, joint)
                  = Value(vm_vars.objective, vm_solution)
                    + Value(path_vars.objective, Restrict(routing,
                                SwitchNames(path_vars) \cup FlowNames(path_vars)))

(***************************************************************************)
(* C30: the constant arrays are aligned with the numbering they are read   *)
(* through.  In every constructed tree link_capacity has LINKS entries,    *)
(* entry l being the value of the level of the pair link_dict maps to l;   *)
(* idle_powcons and dyn_powcons have NODES entries, entry n being the      *)
(* value of the level of node n, the servers at SWITCHES..NODES-1;         *)
(* cpu_util has VMS entries and data_rate FLOWS; so every index the model  *)
(* builders read a constant at is in range.                                *)
(***************************************************************************)
\* the indices (from 0) the builders read each array at
ReadIndices(t) ==
    [link_capacity |-> 0..(t.LINKS - 1),
     idle_powcons |-> (0..(t.SWITCHES - 1)) \cup {s + t.SWITCHES : s \in 0..(t.SERVERS - 1)},
     dyn_powcons |-> (0..(t.SWITCHES - 1)) \cup {s + t.SWITCHES : s \in 0..(t.SERVERS - 1)},
     cpu_util |-> 0..(t.VMS - 1),
     data_rate |-> 0..(t.FLOWS - 1),
     server_capacity |-> 0..(t.SERVERS - 1)]

InRange(indices, array) == \A i \in indices : (i + 1) \in DOMAIN array

C30_ArraysAligned ==
    (pc \notin {"start", "failed"}) =>
        /\ Len(tree.link_capacity) = tree.LINKS
        /\ Len(tree.idle_powcons) = tree.NODES
        /\ Len(tree.dyn_powcons) = tree.NODES
        /\ Len(tree.cpu_util) = tree.VMS
        /\ Len(tree.data_rate) = tree.FLOWS
        /\ Len(tree.server_capacity) = tree.SERVERS
        /\ \A l \in 0..(tree.LINKS - 1) :
              \E p \in AdjacentOrdered(tree) :
                  /\ p[1] < p[2]
                  /\ DictGet(tree.link_dict, StrPair(p[1], p[2])) = l
                  /\ DictGet(tree.link_dict, StrPair(p[2], p[1])) = l
                  /\ At(tree.link_capacity, l)
                         = tree.LINK_C - tree.LINK_C_DECREASE * NodeLevel(tree, p[1])
        /\ \A n \in NodeIds(tree) :
              /\ At(tree.idle_powcons, n)
                     = tree.IDLE_PC - tree.IDLE_PC_DECREASE * NodeLevel(tree, n)
              /\ At(tree.dyn_powcons, n)
                     = tree.DYN_PC - tree.DYN_PC_DECREASE * NodeLevel(tree, n)
              /\ (n \in ServerIds(tree)) <=> (NodeLevel(tree, n) = tree.DEPTH)
        /\ InRange(ReadIndices(tree).link_capacity, tree.link_capacity)
        /\ InRange(ReadIndices(tree).idle_powcons, tree.idle_powcons)
        /\ InRange(ReadIndices(tree).dyn_powcons, tree.dyn_powcons)
        /\ InRange(ReadIndices(tree).cpu_util, tree.cpu_util)
        /\ InRange(ReadIndices(tree).data_rate, tree.data_rate)
        /\ InRange(ReadIndices(tree).server_capacity, tree.server_capacity)

\* a tree of depth 3: 18 links, 15 nodes, 8 VMs, 4 flows; the last link is
\* a server link, the last node a server
C30_Witness ==
    /\ pc = "tree"
    /\ tree.DEPTH = 3
    /\ Len(tree.link_capacity) = 18 /\ tree.LINKS = 18
    /\ Len(tree.dyn_powcons) = 15 /\ tree.NODES = 15
    /\ Len(tree.cpu_util) = 8 /\ Len(tree.data_rate) = 4
    /\ DictGet(tree.link_dict, StrPair(6, 14)) = 17
    /\ At(tree.link_capacity, 17) = tree.LINK_C - 4
    /\ At(tree.dyn_powcons, 14) = tree.DYN_PC - 3
====
